---- MODULE Spec2Model ----
(***************************************************************************)
(* Two processes each run one instance of the SCR_Multiplayer module of    *)
(* src/sw.js: "host" calls host(), "joiner" calls join().  Between them    *)
(* sit the signaling room service (rooms, one mailbox per peer, HTTP       *)
(* requests in flight) and the two RTCPeerConnection objects with their    *)
(* two data channels.  Every callback of the module is one action.         *)
(***************************************************************************)
EXTENDS Integers, Sequences, FiniteSets, TLC

\* Candidates one RTCPeerConnection gathers after setLocalDescription.
NumCand == 1

\* Environment failures (failed request, rejected link operation, lost link)
\* injected in one behaviour.
MaxFailures == 1

\* Races the host starts in one session.
MaxRaces == 2

\* Calls of host() or join() one process makes in one behaviour.
MaxSessions == 2

Peers == {"host", "joiner"}

Other(p) == IF p = "host" THEN "joiner" ELSE "host"

\* The code the room service hands out, and what a joiner may type.
ServerCode == <<"A", "B", "C", "D">>

JoinInputs == {<<"a", "b", "c", "d">>, <<"A", "b", "C", "d">>, ServerCode}

UpperChar(c) ==
  CASE c = "a" -> "A"
    [] c = "b" -> "B"
    [] c = "c" -> "C"
    [] c = "d" -> "D"
    [] OTHER -> c

toUpperCaseAsTyped(s) == s

toUpperCase(s) == [i \in DOMAIN s |-> UpperChar(s[i])]

NoCode == <<>>

\* The mailbox id the room service gives each side.
IdOf(p) == IF p = "host" THEN "hostId" ELSE "joinerId"

Envelope(t, k) == [type |-> t, cand |-> k]

\* Content of an envelope that the browser's WebRTC constructors and
\* setRemoteDescription refuse.
BadContent == NumCand + 1

\* What a best-effort mailbox may hold beside the peers' envelopes: an
\* envelope of no known type, and envelopes of a known type whose session
\* description or candidate is garbage.
Malformed ==
  {Envelope("noise", 0), Envelope("ice", BadContent),
   Envelope("offer", BadContent), Envelope("answer", BadContent)}

WellFormed(msg) == msg \notin Malformed

(***************************************************************************)
(* The state packet (game.js 673-695) as the bytes an Int32Array lays out.  *)
(***************************************************************************)

\* game.js 679: new ArrayBuffer(28).
PacketBytes == 28

MaxInt32 == 2147483647

MinInt32 == -MaxInt32 - 1

\* An Int32Array element store (game.js 681-687): the value in four bytes,
\* two's complement, least significant byte first (the byte order of every
\* platform the page runs on; the packet carries no byte-order mark).
Int32Bytes(v) ==
  <<v % 256, (v \div 256) % 256, (v \div 65536) % 256, (v \div 16777216) % 256>>

\* An Int32Array element load (game.js 694): element k, counted from 0, of a
\* view over the bytes b.
Int32At(b, k) ==
  LET top == IF b[4 * k + 4] >= 128 THEN b[4 * k + 4] - 256 ELSE b[4 * k + 4]
  IN b[4 * k + 1] + 256 * b[4 * k + 2] + 65536 * b[4 * k + 3] + 16777216 * top

\* What a data channel hands to onmessage as e.data: an ArrayBuffer with its
\* bytes, or a string.
Buffer(bytes) == [buffer |-> TRUE, bytes |-> bytes]

Text == [buffer |-> FALSE, bytes |-> <<>>]

\* game.js 677-688 on x, the seven values the engine reports for the local
\* car: road section, distance into the section, road X position, z speed,
\* wheel FL, wheel FR, wheel R.
StatePacket(x) ==
  Buffer(Int32Bytes(x[1]) \o Int32Bytes(x[2]) \o Int32Bytes(x[3])
         \o Int32Bytes(x[4]) \o Int32Bytes(x[5]) \o Int32Bytes(x[6])
         \o Int32Bytes(x[7]))

\* mpReceiveState as it would be if it read the wheels in another order.
mpReceiveStateSwapped(mir, data) ==
  IF ~data.buffer \/ Len(data.bytes) < 28 THEN mir
  ELSE IF Len(data.bytes) % 4 # 0 THEN mir
  ELSE <<Int32At(data.bytes, 0), Int32At(data.bytes, 1), Int32At(data.bytes, 2),
         Int32At(data.bytes, 3), Int32At(data.bytes, 5), Int32At(data.bytes, 4),
         Int32At(data.bytes, 6)>>

\* mpReceiveState as it would be without its length check: the elements a
\* short buffer does not have read as undefined, which the engine takes as 0.
mpReceiveStateUnguarded(mir, data) ==
  IF ~data.buffer THEN mir
  ELSE IF Len(data.bytes) % 4 # 0 THEN mir
  ELSE [k \in 1..7 |-> IF 4 * k <= Len(data.bytes)
                       THEN Int32At(data.bytes, k - 1) ELSE 0]

\* game.js 691-695 on mir, the opponent's state the engine holds: anything
\* but a buffer of 28 bytes or more is ignored; new Int32Array(data) throws a
\* RangeError on a buffer whose length is no multiple of 4 and the handler
\* ends there; otherwise the first seven elements overwrite the state.
mpReceiveState(mir, data) ==
  IF ~data.buffer \/ Len(data.bytes) < 28 THEN mir
  ELSE IF Len(data.bytes) % 4 # 0 THEN mir
  ELSE <<Int32At(data.bytes, 0), Int32At(data.bytes, 1), Int32At(data.bytes, 2),
         Int32At(data.bytes, 3), Int32At(data.bytes, 4), Int32At(data.bytes, 5),
         Int32At(data.bytes, 6)>>

\* States of a car the engine may report: the values of a race, the ends of
\* the 32-bit range, and values on both sides of every byte boundary.
CarStates ==
  {<<3, 1500, -200, 4200, 10, 10, 5>>,
   <<MinInt32, MaxInt32, -1, 0, 1, 255, 256>>,
   <<65535, 65536, 16777215, 16777216, -65536, -16777216, -256>>,
   <<-2, 127, 128, -128, -129, 32767, -32768>>,
   <<MaxInt32, MinInt32, MaxInt32 - 1, MinInt32 + 1, -16777217, 2, -3>>}

\* Two of them, for a race in which the channel also loses, repeats and
\* reorders.
RaceStates ==
  {<<3, 1500, -200, 4200, 10, 10, 5>>,
   <<MinInt32, MaxInt32, -1, 0, 1, 255, 256>>}

\* The opponent's state before any packet arrived.
NoOpponent == <<0, 0, 0, 0, 0, 0, 0>>

\* A buffer one field short: six elements.
ShortBuffer ==
  Buffer(SubSeq(StatePacket(<<7, 7, 7, 7, 7, 7, 7>>).bytes, 1, PacketBytes - 4))

\* A state packet with two more bytes.
OddBuffer ==
  Buffer(StatePacket(<<3, 1500, -200, 4200, 10, 10, 5>>).bytes \o <<1, 0>>)

\* A state packet with one more element.
LongBuffer ==
  Buffer(StatePacket(<<7, 7, 7, 7, 7, 7, 7>>).bytes \o <<9, 0, 0, 0>>)

\* What a peer that is not this page may put on the channel.
Foreign == {Text, ShortBuffer, OddBuffer, LongBuffer}

VARIABLES
  mod,        \* per process: the module's variables (sw.js 70-86)
  link,       \* per process: its RTCPeerConnection object
  chan,       \* per process: readyState of its 'game' and 'reliable' channel
  req,        \* per process: the POST /rooms or POST /rooms/<code>/join request
  promise,    \* per process: the future host()/join() returned
  rooms,      \* room service: the codes of the rooms that exist
  net,        \* sigSend requests in flight
  mailbox,    \* room service: envelopes waiting for each peer
  pollResp,   \* per process: the poll response in flight (at most one)
  calls,      \* per process: how often the Session Owner's callbacks ran
  lastOp,     \* per process: the last lifecycle call of the Session Owner
  sendFailed, \* per process: a sigSend request of this side failed
  negFailed,  \* per process: a link operation of the negotiation was rejected
  iceHandled, \* per process: 'ice' envelopes its poll handler has handled
  failures,   \* failures injected so far
  pollsFailed,\* per process: polls of its timer that failed
  wire,       \* per process: payloads it sent on 'reliable', not yet delivered
  rx,         \* per process: what its 'reliable' onmessage handler did, in order
  sentLog,    \* per process: the calls of sendReliable() its owner made
  ui,         \* per process: the Session Owner (game.js): uiMode, pending timer
  air,        \* per process: payloads it sent on 'game', in flight
  mirror,     \* per process: the opponent's state its engine holds
  gameRx,     \* per process: the calls of its state-message callback
  bind,       \* per process: per channel label, the handlers set on that channel
  orphans,    \* per process: live links its module no longer refers to
  sessions,   \* per process: calls of host() or join() so far
  joinCode,   \* per process: the code its owner last passed to join()
  handled,    \* per process: the envelope types its poll handler was passed
  season,   \* the season under way of the process that plays alone, or NoSeason
  solo      \* game.js variables of the process that plays alone

vars == <<mod, link, chan, req, promise, rooms, net, mailbox, pollResp,
          calls, lastOp, sendFailed, negFailed, iceHandled, failures,
          pollsFailed, wire, rx, sentLog, ui,
          air, mirror, gameRx, bind, orphans, sessions, joinCode, handled,
          season, solo>>

\* The variables of the 'game' channel traffic and of the channel bindings.
raceVars ==
  <<air, mirror, gameRx, bind, orphans, sessions, joinCode, handled, season,
    solo>>

\* ---------------------------------------------------------------------
\* The racing season (game.js 38-66, 107-192, 452-664, 1026-1054,
\* 1305-1336), played by a process that holds no session.

\* A JavaScript array literal: index 0 is its first element.
Array(s) == [i \in 0..(Len(s) - 1) |-> s[i + 1]]

\* game.js 60
HUMAN_PLAYER == 11

Drivers == 0..11

\* game.js 58
INITIAL_DIVISIONS == Array(<<3, 3, 3, 2, 2, 2, 1, 1, 1, 0, 0, 0>>)

\* game.js 46
BASE_STRENGTH ==
  Array(<<120, 110, 100, 90, 80, 70, 60, 50, 40, 30, 20, 10>>)

\* game.js 64-65
PAIR_A == Array(<<0, 0, 0, 0, 1, 1>>)
PAIR_B == Array(<<1, 1, 2, 2, 2, 2>>)

\* game.js 122, Math.floor(Math.random() * 64): two of the 64 values, so
\* that two drivers of a division can draw equal and unequal strengths.
Rolls == {0, 10}

\* How many times the season may be started.
MaxSeasons == 2

\* game.js 108, var season = null: a record without the fields of a season.
NoSeason == [null |-> TRUE]

\* game.js 69-71, 96 and 108-110 for the process that plays alone: uiMode,
\* fading (fade is "none" while fading is false, the name of the scheduled
\* callback while it is pending, "clear" during the 60 ms after it and
\* "stuck" when the callback threw before it scheduled the reset), the
\* engine's game mode and race-finished flag behind getGameMode() and
\* isRaceFinished(), currentDivAssign, humanDivision; seasons counts the
\* calls of createNewSeason.  olderFade says that a fade which was under way
\* when the end of the race was seen (raceEndTime set, game.js 1308) is
\* still under way: its 410 ms are over before the 6 s of game.js 1320 are.
InitSolo ==
  [mode |-> "main_menu", fade |-> "none", cppMode |-> "menu",
   raceFinished |-> FALSE, olderFade |-> FALSE,
   currentDivAssign |-> INITIAL_DIVISIONS,
   humanDivision |-> 0, seasons |-> 0]

\* sw.js 70-86: the module's variables right after the script ran.
InitModule ==
  [roomCode |-> NoCode, peerId |-> "", isHost |-> FALSE, pollTimer |-> FALSE,
   pc |-> "null", dcGame |-> "null", dcReliable |-> "null",
   onOpen |-> <<>>, onMessage |-> "null", onReliableMessage |-> "null",
   onClose |-> "null", connected |-> FALSE, timers |-> 0]

\* game.js 68-103: the owner starts in the main menu, no timer pending, not
\* connected to an opponent, no fade under way, track 0 selected, the track
\* selection of the host not on the screen.  fade is "none" while fading is
\* false; while it is true fade names the callback fadeAndDo() scheduled, and
\* "clear" once the callback ran.
InitUi ==
  [mode |-> "main_menu", timer |-> FALSE, mpConnected |-> FALSE,
   fade |-> "none", track |-> 0, overlay |-> FALSE,
   mpOpponentFinished |-> FALSE]

\* game.js 246-258 up to the first setTimeout: nothing while a fade is under
\* way, else the callback is scheduled.
fadeAndDo(u, callback) ==
  IF u.fade # "none" THEN u ELSE [u EXCEPT !.fade = callback]

InitLink ==
  [state |-> "none", local |-> "none", remote |-> "none", cands |-> 0,
   gather |-> 0, op |-> "idle"]

InitChan == [game |-> "none", reliable |-> "none"]

\* The labels a channel of the link may carry: the two of sw.js 140 and 147
\* and one the module does not know.
Labels == {"game", "reliable", "chat"}

\* No channel of the link has handlers of the module.
NoBind == [l \in Labels |-> "none"]

\* The state-message callback was not called yet: n counts its calls, last
\* is the e.data of the latest call, big the e.data of the latest call with
\* a buffer of PacketBytes or more (a string while there was none).
InitRx == [n |-> 0, last |-> Text, big |-> Text]

Init ==
  /\ mod = [p \in Peers |-> InitModule]
  /\ link = [p \in Peers |-> InitLink]
  /\ chan = [p \in Peers |-> InitChan]
  /\ req = [p \in Peers |-> [st |-> "idle", code |-> NoCode]]
  /\ promise = [p \in Peers |-> "none"]
  /\ rooms = {}
  /\ net = {}
  /\ mailbox = [p \in Peers |-> <<>>]
  /\ pollResp = [p \in Peers |-> {}]
  /\ calls = [p \in Peers |-> [open |-> 0, close |-> 0]]
  /\ lastOp = [p \in Peers |-> "none"]
  /\ sendFailed = [p \in Peers |-> FALSE]
  /\ negFailed = [p \in Peers |-> FALSE]
  /\ iceHandled = [p \in Peers |-> 0]
  /\ failures = 0
  /\ pollsFailed = [p \in Peers |-> 0]
  /\ wire = [p \in Peers |-> <<>>]
  /\ rx = [p \in Peers |-> <<>>]
  /\ sentLog = [p \in Peers |-> <<>>]
  /\ ui = [p \in Peers |-> InitUi]
  /\ air = [p \in Peers |-> {}]
  /\ mirror = [p \in Peers |-> NoOpponent]
  /\ gameRx = [p \in Peers |-> InitRx]
  /\ bind = [p \in Peers |-> NoBind]
  /\ orphans = [p \in Peers |-> 0]
  /\ sessions = [p \in Peers |-> 0]
  /\ joinCode = [p \in Peers |-> NoCode]
  /\ handled = [p \in Peers |-> {}]
  /\ season = NoSeason
  /\ solo = InitSolo

(***************************************************************************)
(* The module's functions, as functions of the state they touch.           *)
(***************************************************************************)

\* sw.js 208, clearInterval(pollTimer) under its check: m.timers counts the
\* intervals of the process that the browser runs, m.pollTimer says whether
\* the module holds the handle of one.
clearInterval(m) == [m EXCEPT !.timers = IF m.pollTimer THEN @ - 1 ELSE @]

\* sw.js 207-209
stopPolling(m) == [clearInterval(m) EXCEPT !.pollTimer = FALSE]

startPollingKeepsOld(m) == [m EXCEPT !.pollTimer = TRUE, !.timers = @ + 1]

\* sw.js 196-205: clears a running timer, starts an interval and records it.
startPolling(m) ==
  [clearInterval(m) EXCEPT !.pollTimer = TRUE, !.timers = @ + 1]

\* sw.js 110-112: the request sigSend issues, addressed with the module's
\* current room code and peer id.
sigSend(p, m, env) == [from |-> p, env |-> env, code |-> m.roomCode, id |-> m.peerId]

\* RTCDataChannel.close(): the closing procedure starts on a live channel.
CloseChannel(st) == IF st \in {"connecting", "open"} THEN "closing" ELSE st

\* cleanup as it would be without its call of stopPolling.
cleanupKeepsTimer(s) ==
  [m |-> [s.m EXCEPT !.connected = FALSE, !.dcGame = "null",
                     !.dcReliable = "null", !.pc = "null",
                     !.roomCode = NoCode, !.peerId = ""],
   l |-> IF s.m.pc # "null"
         THEN [s.l EXCEPT !.state = "closed", !.gather = 0, !.op = "idle"]
         ELSE s.l,
   c |-> [game |-> IF s.m.dcGame # "null" \/ s.m.pc # "null"
                   THEN CloseChannel(s.c.game) ELSE s.c.game,
          reliable |-> IF (s.m.dcReliable # "null" \/ s.m.pc # "null")
                          /\ s.c.reliable # "none"
                       THEN "closed" ELSE s.c.reliable]]

cleanupForgetsRole(s) ==
  [m |-> [stopPolling(s.m) EXCEPT !.connected = FALSE, !.dcGame = "null",
                                  !.dcReliable = "null", !.pc = "null",
                                  !.roomCode = NoCode, !.peerId = "",
                                  !.isHost = FALSE],
   l |-> IF s.m.pc # "null"
         THEN [s.l EXCEPT !.state = "closed", !.gather = 0, !.op = "idle"]
         ELSE s.l,
   c |-> [game |-> IF s.m.dcGame # "null" \/ s.m.pc # "null"
                   THEN CloseChannel(s.c.game) ELSE s.c.game,
          reliable |-> IF (s.m.dcReliable # "null" \/ s.m.pc # "null")
                          /\ s.c.reliable # "none"
                       THEN "closed" ELSE s.c.reliable]]

\* sw.js 321-329 on s = [m: module variables, l: the link object, c: the two
\* channels]: the module releases everything, the objects it held are closed.
cleanup(s) ==
  [m |-> [stopPolling(s.m) EXCEPT !.connected = FALSE, !.dcGame = "null",
                                  !.dcReliable = "null", !.pc = "null",
                                  !.roomCode = NoCode, !.peerId = ""],
   l |-> IF s.m.pc # "null"
         THEN [s.l EXCEPT !.state = "closed", !.gather = 0, !.op = "idle"]
         ELSE s.l,
   c |-> [game |-> IF s.m.dcGame # "null" \/ s.m.pc # "null"
                   THEN CloseChannel(s.c.game) ELSE s.c.game,
          reliable |-> IF (s.m.dcReliable # "null" \/ s.m.pc # "null")
                          /\ s.c.reliable # "none"
                       THEN "closed" ELSE s.c.reliable]]

PeerState(p) == [m |-> mod[p], l |-> link[p], c |-> chan[p]]

\* sw.js 120-136: a fresh RTCPeerConnection replaces whatever pc referred to.
createPeerConnection(s) ==
  [s EXCEPT !.m.pc = "pc",
            !.l = [InitLink EXCEPT !.state = "new"]]

\* sw.js 138-151: the host creates both channels outbound.
setupDataChannels(s) ==
  [s EXCEPT !.m.dcGame = "dc", !.m.dcReliable = "dc",
            !.c = [game |-> "connecting", reliable |-> "connecting"]]

\* sw.js 138-151: the handlers the host sets on the channels it creates.
setupDataChannelsBinds ==
  [l \in Labels |-> CASE l = "game" -> "setupDcGame"
                      [] l = "reliable" -> "setupDcReliable"
                      [] OTHER -> "none"]

\* sw.js 121: pc = new RTCPeerConnection(...) on s; the link pc referred to,
\* if any, is neither closed nor referred to any longer.
Orphaned(s) == IF s.m.pc # "null" THEN 1 ELSE 0

SetPeer(p, s) ==
  /\ mod' = [mod EXCEPT ![p] = s.m]
  /\ link' = [link EXCEPT ![p] = s.l]
  /\ chan' = [chan EXCEPT ![p] = s.c]

\* sw.js 244-249 and 294-300: host()/join() put their own function in the
\* onOpen slot; it remembers the function that was there.
InterceptOpen(m, wrapper) == [m EXCEPT !.onOpen = <<wrapper>> \o m.onOpen]

\* game.js 813-820: the open callback startHosting() installs.  It reads
\* SCR_Multiplayer.onReliableMessage, a property with a setter and no getter
\* (sw.js 346), gets undefined and stores that in the slot; then
\* showMpHostTrack() (game.js 832-833).
hostOnOpen(o) ==
  [o EXCEPT !.opens = @ + 1, !.m.onReliableMessage = "null",
            !.u.mode = "mp_host_track", !.u.mpConnected = TRUE,
            !.u.track = 0, !.u.overlay = TRUE]

\* game.js 933-941: the open callback joinGame() installs touches the page
\* only.
joinOnOpen(o) == [o EXCEPT !.opens = @ + 1, !.u.mpConnected = TRUE]

\* Calling the function in the onOpen slot, on o = [m: module variables,
\* prom: the host()/join() future, opens: runs of the owner's open callback,
\* u: the owner's variables].  The wrapper stops polling, restores the slot
\* and calls what it restored; join()'s wrapper then resolves the future.
RECURSIVE CallOnOpen(_)
CallOnOpen(o) ==
  IF o.m.onOpen = <<>> THEN o
  ELSE LET f == Head(o.m.onOpen) IN
    IF f = "hostOnOpen" THEN hostOnOpen(o)
    ELSE IF f = "joinOnOpen" THEN joinOnOpen(o)
    ELSE LET restored == [o EXCEPT !.m = [stopPolling(o.m) EXCEPT
                                           !.onOpen = Tail(o.m.onOpen)]]
             called == CallOnOpen(restored)
         IN IF f = "joinWrap" /\ called.prom = "pending"
            THEN [called EXCEPT !.prom = "resolved"]
            ELSE called

(***************************************************************************)
(* The Session Owner's lifecycle calls and the room requests.              *)
(***************************************************************************)

\* game.js 795-830 calling sw.js 213-217: the callbacks are set, then host()
\* records the role and posts the room creation.
hostCalled(p) ==
  /\ mod' = [mod EXCEPT ![p].onClose = "owner", ![p].onReliableMessage = "owner",
                        ![p].onMessage = "owner",
                        ![p].onOpen = <<"hostOnOpen">>, ![p].isHost = TRUE]
  /\ req' = [req EXCEPT ![p] = [st |-> "pending", code |-> NoCode]]
  /\ promise' = [promise EXCEPT ![p] = "pending"]
  /\ lastOp' = [lastOp EXCEPT ![p] = "start"]
  /\ UNCHANGED <<link, chan, rooms, net, mailbox, pollResp, calls,
                 sendFailed, negFailed, iceHandled, failures>>
  /\ ui' = [ui EXCEPT ![p].mode = "mp_host_lobby"]
  /\ UNCHANGED <<pollsFailed, wire, rx, sentLog>>
  /\ sessions' = [sessions EXCEPT ![p] = @ + 1]
  /\ UNCHANGED <<air, mirror, gameRx, bind, orphans, joinCode, handled,
                 season, solo>>

\* The first session of the process: the owner is in a menu and the module
\* as the script left it.
startHosting(p) ==
  /\ p = "host"
  /\ req[p].st = "idle"
  /\ hostCalled(p)

\* game.js 786 and 795-821: the owner is back in the main menu, whatever
\* became of the module's earlier session, and hosts again.
startHostingAgain(p) ==
  /\ p = "host"
  /\ req[p].st \in {"ok", "failed"}
  /\ ui[p].mode = "main_menu"
  /\ sessions[p] < MaxSessions
  /\ hostCalled(p)

\* sw.js 217-253: the room exists; the continuation of host() runs whatever
\* happened to the module since the call.
hostThen(p) ==
  /\ p = "host"
  /\ req[p].st = "pending"
  /\ rooms' = rooms \cup {ServerCode}
  /\ LET s0 == [PeerState(p) EXCEPT !.m.roomCode = ServerCode,
                                   !.m.peerId = IdOf(p)]
         s1 == setupDataChannels(createPeerConnection(s0))
         s2 == [s1 EXCEPT !.m = InterceptOpen(startPolling(s1.m), "hostWrap")]
     IN SetPeer(p, s2)
  /\ req' = [req EXCEPT ![p].st = "ok"]
  /\ promise' = [promise EXCEPT ![p] = "resolved"]
  /\ UNCHANGED <<net, mailbox, pollResp, calls, lastOp, sendFailed,
                 negFailed, iceHandled, failures>>
  /\ UNCHANGED <<pollsFailed, wire, rx, sentLog, ui>>
  /\ bind' = [bind EXCEPT ![p] = setupDataChannelsBinds]
  /\ orphans' = [orphans EXCEPT ![p] = @ + Orphaned(PeerState(p))]
  /\ UNCHANGED <<air, mirror, gameRx, sessions, joinCode, handled, season,
                 solo>>

\* hostFailed as it would be if sigPost did not check the response status:
\* the continuation of host() runs on the error response.
hostFailedUnchecked(p) ==
  /\ p = "host"
  /\ req[p].st = "pending"
  /\ failures < MaxFailures
  /\ failures' = failures + 1
  /\ LET s1 == setupDataChannels(createPeerConnection(PeerState(p)))
         s2 == [s1 EXCEPT !.m = InterceptOpen(startPolling(s1.m), "hostWrap")]
     IN SetPeer(p, s2)
  /\ req' = [req EXCEPT ![p].st = "failed"]
  /\ promise' = [promise EXCEPT ![p] = "resolved"]
  /\ UNCHANGED <<rooms, net, mailbox, pollResp, calls, lastOp, sendFailed,
                 negFailed, iceHandled>>
  /\ UNCHANGED <<pollsFailed, wire, rx, sentLog, ui>>
  /\ bind' = [bind EXCEPT ![p] = setupDataChannelsBinds]
  /\ orphans' = [orphans EXCEPT ![p] = @ + Orphaned(PeerState(p))]
  /\ UNCHANGED <<air, mirror, gameRx, sessions, joinCode, handled, season,
                 solo>>

\* sw.js 92-101 under host(): the service is unreachable or answers with a
\* non-success status; sigPost throws and host()'s future is rejected.
hostFailed(p) ==
  /\ p = "host"
  /\ req[p].st = "pending"
  /\ failures < MaxFailures
  /\ failures' = failures + 1
  /\ req' = [req EXCEPT ![p].st = "failed"]
  /\ promise' = [promise EXCEPT ![p] = "rejected"]
  /\ UNCHANGED <<mod, link, chan, rooms, net, mailbox, pollResp, calls,
                 lastOp, sendFailed, negFailed, iceHandled>>
  /\ UNCHANGED <<pollsFailed, wire, rx, sentLog, ui>>
  /\ UNCHANGED raceVars

\* game.js 926-950 calling sw.js 258-263: the callbacks are set, then join()
\* normalizes the code, records the role and posts the join.
joinCalled(p, code) ==
  /\ mod' = [mod EXCEPT ![p].onClose = "owner", ![p].onReliableMessage = "owner",
                        ![p].onMessage = "owner",
                        ![p].onOpen = <<"joinOnOpen">>,
                        ![p].roomCode = toUpperCase(code),
                        ![p].isHost = FALSE]
  /\ req' = [req EXCEPT ![p] = [st |-> "pending", code |-> toUpperCase(code)]]
  /\ promise' = [promise EXCEPT ![p] = "pending"]
  /\ lastOp' = [lastOp EXCEPT ![p] = "start"]
  /\ UNCHANGED <<link, chan, rooms, net, mailbox, pollResp, calls,
                 sendFailed, negFailed, iceHandled, failures>>
  /\ ui' = [ui EXCEPT ![p].mode = "mp_join_lobby"]
  /\ UNCHANGED <<pollsFailed, wire, rx, sentLog>>
  /\ sessions' = [sessions EXCEPT ![p] = @ + 1]
  /\ joinCode' = [joinCode EXCEPT ![p] = code]
  /\ UNCHANGED <<air, mirror, gameRx, bind, orphans, handled, season, solo>>

\* The first session of the process.
joinGame(p, code) ==
  /\ p = "joiner"
  /\ req[p].st = "idle"
  /\ joinCalled(p, code)

\* game.js 787, 903-909 and 926-945: the owner is back in the main menu,
\* whatever became of the module's earlier session, and joins again.
joinGameAgain(p, code) ==
  /\ p = "joiner"
  /\ req[p].st \in {"ok", "failed"}
  /\ ui[p].mode = "main_menu"
  /\ sessions[p] < MaxSessions
  /\ joinCalled(p, code)

\* game.js 903-910 and 926-945: joinGame() leaves the join screen up and its
\* CONNECT button in use until the open callback disables it (game.js
\* 937-938), so the owner can call join() again while the first call polls.
connectAgain(p, code) ==
  /\ p = "joiner"
  /\ req[p].st \in {"ok", "failed"}
  /\ ui[p].mode = "mp_join_lobby"
  /\ calls[p].open = 0
  /\ sessions[p] < MaxSessions
  /\ joinCalled(p, code)

\* sw.js 263-301: the room was joined; the continuation of join() runs
\* whatever happened to the module since the call.
joinThen(p) ==
  /\ p = "joiner"
  /\ req[p].st = "pending"
  /\ req[p].code \in rooms
  /\ LET s0 == [PeerState(p) EXCEPT !.m.peerId = IdOf(p)]
         s1 == createPeerConnection(s0)
         s2 == [s1 EXCEPT !.m = InterceptOpen(startPolling(s1.m), "joinWrap")]
     IN /\ SetPeer(p, s2)
        /\ net' = net \cup {sigSend(p, s1.m, Envelope("joined", 0))}
  /\ req' = [req EXCEPT ![p].st = "ok"]
  /\ UNCHANGED <<promise, rooms, mailbox, pollResp, calls, lastOp,
                 sendFailed, negFailed, iceHandled, failures>>
  /\ UNCHANGED <<pollsFailed, wire, rx, sentLog, ui>>
  /\ orphans' = [orphans EXCEPT ![p] = @ + Orphaned(PeerState(p))]
  /\ UNCHANGED <<air, mirror, gameRx, bind, sessions, joinCode, handled,
                 season, solo>>

\* sw.js 92-101 under join(): the room is unknown, or the service is
\* unreachable; sigPost throws and join()'s future is rejected.
joinFailed(p) ==
  /\ p = "joiner"
  /\ req[p].st = "pending"
  /\ req[p].code \notin rooms \/ failures < MaxFailures
  /\ failures' = IF req[p].code \in rooms THEN failures + 1 ELSE failures
  /\ req' = [req EXCEPT ![p].st = "failed"]
  /\ promise' = [promise EXCEPT ![p] = "rejected"]
  /\ UNCHANGED <<mod, link, chan, rooms, net, mailbox, pollResp, calls,
                 lastOp, sendFailed, negFailed, iceHandled>>
  /\ UNCHANGED <<pollsFailed, wire, rx, sentLog, ui>>
  /\ UNCHANGED raceVars

\* game.js 754-759 calling sw.js 321-329.
mpCleanup(p) ==
  /\ SetPeer(p, cleanup(PeerState(p)))
  /\ lastOp' = [lastOp EXCEPT ![p] = "cleanup"]
  /\ UNCHANGED <<req, promise, rooms, net, mailbox, pollResp, calls,
                 sendFailed, negFailed, iceHandled, failures>>
  /\ ui' = [ui EXCEPT ![p].mode = "main_menu", ![p].mpConnected = FALSE,
                      ![p].overlay = FALSE, ![p].mpOpponentFinished = FALSE]
  /\ UNCHANGED <<pollsFailed, wire, rx, sentLog>>
  /\ UNCHANGED raceVars

(***************************************************************************)
(* Signaling: envelopes posted, the mailboxes, the poll loop.              *)
(***************************************************************************)

\* The room service accepts a request addressed to a room it knows and to the
\* mailbox id it gave the sender.
Addressed(p, code, id) == code \in rooms /\ id = IdOf(p)

\* sw.js 110-112, the request arriving: the service files the envelope in the
\* other side's mailbox; a badly addressed request gets a non-success status,
\* sigPost throws and nothing catches it.
sigSendArrives(r) ==
  /\ r \in net
  /\ net' = net \ {r}
  /\ IF Addressed(r.from, r.code, r.id)
     THEN /\ mailbox' = [mailbox EXCEPT ![Other(r.from)] = Append(@, r.env)]
          /\ UNCHANGED sendFailed
     ELSE /\ sendFailed' = [sendFailed EXCEPT ![r.from] = TRUE]
          /\ UNCHANGED mailbox
  /\ UNCHANGED <<mod, link, chan, req, promise, rooms, pollResp, calls,
                 lastOp, negFailed, iceHandled, failures>>
  /\ UNCHANGED <<pollsFailed, wire, rx, sentLog, ui>>
  /\ UNCHANGED raceVars

\* sw.js 92-101 and 110-112: the service is unreachable for this request; the
\* future sigSend returned is rejected and no caller looks at it.
sigSendFails(r) ==
  /\ r \in net
  /\ failures < MaxFailures
  /\ failures' = failures + 1
  /\ net' = net \ {r}
  /\ sendFailed' = [sendFailed EXCEPT ![r.from] = TRUE]
  /\ UNCHANGED <<mod, link, chan, req, promise, rooms, mailbox, pollResp,
                 calls, lastOp, negFailed, iceHandled>>
  /\ UNCHANGED <<pollsFailed, wire, rx, sentLog, ui>>
  /\ UNCHANGED raceVars

\* sw.js 198-203 and 114-116: the interval timer fires and the poll drains
\* the mailbox.  A badly addressed poll fails and the failure is swallowed;
\* the response to a poll of an empty mailbox has no envelope to handle:
\* neither leaves anything in flight.
pollTick(p) ==
  /\ mod[p].pollTimer
  /\ pollResp[p] = {}
  /\ IF Addressed(p, mod[p].roomCode, mod[p].peerId) /\ mailbox[p] # <<>>
     THEN /\ pollResp' = [pollResp EXCEPT ![p] = {mailbox[p]}]
          /\ mailbox' = [mailbox EXCEPT ![p] = <<>>]
     ELSE UNCHANGED <<pollResp, mailbox>>
  /\ UNCHANGED <<mod, link, chan, req, promise, rooms, net, calls, lastOp,
                 sendFailed, negFailed, iceHandled, failures>>
  /\ UNCHANGED <<pollsFailed, wire, rx, sentLog, ui>>
  /\ UNCHANGED raceVars

\* pollFails as it would be if the catch of the poll stopped the timer.
pollFailsStops(p) ==
  /\ mod[p].pollTimer
  /\ pollResp[p] = {}
  /\ failures < MaxFailures
  /\ failures' = failures + 1
  /\ pollsFailed' = [pollsFailed EXCEPT ![p] = @ + 1]
  /\ mod' = [mod EXCEPT ![p] = stopPolling(@)]
  /\ UNCHANGED <<link, chan, req, promise, rooms, net, mailbox, pollResp,
                 calls, lastOp, sendFailed, negFailed, iceHandled,
                 wire, rx, sentLog, ui>>
  /\ UNCHANGED raceVars

\* sw.js 199-203 and 103-108: the poll request fails (service unreachable or
\* a non-success status); sigGet throws and the empty catch swallows it.
pollFails(p) ==
  /\ mod[p].pollTimer
  /\ pollResp[p] = {}
  /\ failures < MaxFailures
  /\ failures' = failures + 1
  /\ pollsFailed' = [pollsFailed EXCEPT ![p] = @ + 1]
  /\ UNCHANGED <<mod, link, chan, req, promise, rooms, net, mailbox, pollResp,
                 calls, lastOp, sendFailed, negFailed, iceHandled,
                 wire, rx, sentLog, ui>>
  /\ UNCHANGED raceVars

\* The room service files a malformed envelope in the mailbox of a side that
\* is in the room; a description only where the side's handler looks for one.
garbageArrives(p, g) ==
  /\ req[p].st = "ok"
  /\ g \in Malformed
  /\ g.type = "offer" => p = "joiner"
  /\ g.type = "answer" => p = "host"
  /\ failures < MaxFailures
  /\ failures' = failures + 1
  /\ mailbox' = [mailbox EXCEPT ![p] = Append(@, g)]
  /\ UNCHANGED <<mod, link, chan, req, promise, rooms, net, pollResp,
                 calls, lastOp, sendFailed, negFailed, iceHandled,
                 pollsFailed, wire, rx, sentLog, ui>>
  /\ UNCHANGED raceVars

\* Well-formed envelopes a side's handler has no branch for, as a room
\* service that mixes up its mailboxes delivers them.
Stray(p) ==
  IF p = "host" THEN {Envelope("offer", 0)}
  ELSE {Envelope("answer", 0), Envelope("joined", 0)}

strayArrives(p, g) ==
  /\ req[p].st = "ok"
  /\ g \in Stray(p)
  /\ failures < MaxFailures
  /\ failures' = failures + 1
  /\ mailbox' = [mailbox EXCEPT ![p] = Append(@, g)]
  /\ UNCHANGED <<mod, link, chan, req, promise, rooms, net, pollResp,
                 calls, lastOp, sendFailed, negFailed, iceHandled,
                 pollsFailed, wire, rx, sentLog, ui>>
  /\ UNCHANGED raceVars

\* RTCPeerConnection.setRemoteDescription / addIceCandidate act on a link that
\* is not closed.
LinkUsable(l) == l.state = "new"

hostHandlerTakesOffer(h, msg, pcNull, rejects) ==
  CASE msg.type = "answer" ->
         IF pcNull THEN [h EXCEPT !.threw = TRUE]
         ELSE IF LinkUsable(h.l) /\ h.l.local = "offer" /\ h.l.remote = "none"
                 /\ ~rejects /\ msg.cand # BadContent
              THEN [h EXCEPT !.l.remote = "answer"]
              ELSE [h EXCEPT !.neg = TRUE]
    [] msg.type = "ice" /\ msg.cand # 0 ->
         IF pcNull \/ msg.cand = BadContent THEN [h EXCEPT !.threw = TRUE]
         ELSE [h EXCEPT !.ice = @ + 1,
                        !.l.cands = IF LinkUsable(h.l) /\ h.l.remote # "none"
                                    THEN @ + 1 ELSE @]
    [] msg.type \in {"joined", "offer"} ->
         IF pcNull THEN [h EXCEPT !.threw = TRUE]
         ELSE [h EXCEPT !.l.op = "offer"]
    [] OTHER -> h

\* sw.js 226-241: host()'s poll handler on h = [l: the link, prom: the
\* future, ice: 'ice' envelopes handled, neg: a link operation was rejected,
\* threw: the handler threw].  With pc = null every branch that touches pc
\* throws; rejects: the link rejects the remote description, as it does a
\* description it cannot decode.  new RTCIceCandidate() throws on a candidate
\* it cannot decode.
hostHandler(h, msg, pcNull, rejects) ==
  CASE msg.type = "answer" ->
         IF pcNull THEN [h EXCEPT !.threw = TRUE]
         ELSE IF LinkUsable(h.l) /\ h.l.local = "offer" /\ h.l.remote = "none"
                 /\ ~rejects /\ msg.cand # BadContent
              THEN [h EXCEPT !.l.remote = "answer"]
              ELSE [h EXCEPT !.neg = TRUE]
    [] msg.type = "ice" /\ msg.cand # 0 ->
         IF pcNull \/ msg.cand = BadContent THEN [h EXCEPT !.threw = TRUE]
         ELSE [h EXCEPT !.ice = @ + 1,
                        !.l.cands = IF LinkUsable(h.l) /\ h.l.remote # "none"
                                    THEN @ + 1 ELSE @]
    [] msg.type = "joined" ->
         IF pcNull THEN [h EXCEPT !.threw = TRUE]
         ELSE [h EXCEPT !.l.op = "offer"]
    [] OTHER -> h

joinHandlerAnswersFirst(h, msg, pcNull, rejects) ==
  CASE msg.type = "offer" ->
         IF pcNull THEN [h EXCEPT !.threw = TRUE]
         ELSE IF LinkUsable(h.l) /\ h.l.local = "none" /\ h.l.remote = "none"
                 /\ ~rejects /\ msg.cand # BadContent
              THEN [h EXCEPT !.l.op = "answer"]
              ELSE [h EXCEPT !.neg = TRUE,
                             !.prom = IF @ = "pending" THEN "rejected" ELSE @]
    [] msg.type = "ice" /\ msg.cand # 0 ->
         IF pcNull \/ msg.cand = BadContent THEN [h EXCEPT !.threw = TRUE]
         ELSE [h EXCEPT !.ice = @ + 1,
                        !.l.cands = IF LinkUsable(h.l) /\ h.l.remote # "none"
                                    THEN @ + 1 ELSE @]
    [] OTHER -> h

\* sw.js 274-291: join()'s poll handler; a rejected setRemoteDescription
\* rejects join()'s future.
joinHandler(h, msg, pcNull, rejects) ==
  CASE msg.type = "offer" ->
         IF pcNull THEN [h EXCEPT !.threw = TRUE]
         ELSE IF LinkUsable(h.l) /\ h.l.local = "none" /\ h.l.remote = "none"
                 /\ ~rejects /\ msg.cand # BadContent
              THEN [h EXCEPT !.l.remote = "offer", !.l.op = "answer"]
              ELSE [h EXCEPT !.neg = TRUE,
                             !.prom = IF @ = "pending" THEN "rejected" ELSE @]
    [] msg.type = "ice" /\ msg.cand # 0 ->
         IF pcNull \/ msg.cand = BadContent THEN [h EXCEPT !.threw = TRUE]
         ELSE [h EXCEPT !.ice = @ + 1,
                        !.l.cands = IF LinkUsable(h.l) /\ h.l.remote # "none"
                                    THEN @ + 1 ELSE @]
    [] OTHER -> h

\* sw.js 200-203: data.messages.forEach(handler); a throw ends the loop and
\* is swallowed by the catch.  seen collects the types of the envelopes the
\* handler was called with.
RECURSIVE forEach(_, _, _, _, _)
forEach(h, msgs, p, pcNull, rejects) ==
  IF msgs = <<>> \/ h.threw THEN h
  ELSE LET g == [h EXCEPT !.seen = @ \cup {Head(msgs).type}]
       IN forEach(IF p = "host"
                  THEN hostHandler(g, Head(msgs), pcNull, rejects)
                  ELSE joinHandler(g, Head(msgs), pcNull, rejects),
                  Tail(msgs), p, pcNull, rejects)

HasDescription(msgs, p) ==
  \E i \in DOMAIN msgs : msgs[i].type = (IF p = "host" THEN "answer" ELSE "offer")

\* sw.js 199-203: the poll response arrives and its envelopes are handled in
\* order, whether or not the timer that asked for them still runs.
pollHandle(p, rejects) ==
  /\ pollResp[p] # {}
  /\ rejects => failures < MaxFailures /\ mod[p].pc # "null"
                /\ \E b \in pollResp[p] : HasDescription(b, p)
  /\ \E b \in pollResp[p] :
       LET h0 == [l |-> link[p], prom |-> promise[p], ice |-> iceHandled[p],
                  neg |-> negFailed[p], threw |-> FALSE, seen |-> handled[p]]
           h == forEach(h0, b, p, mod[p].pc = "null", rejects)
       IN /\ link' = [link EXCEPT ![p] = h.l]
          /\ promise' = [promise EXCEPT ![p] = h.prom]
          /\ iceHandled' = [iceHandled EXCEPT ![p] = h.ice]
          /\ negFailed' = [negFailed EXCEPT ![p] = h.neg]
          /\ handled' = [handled EXCEPT ![p] = h.seen]
  /\ pollResp' = [pollResp EXCEPT ![p] = {}]
  /\ failures' = IF rejects THEN failures + 1 ELSE failures
  /\ UNCHANGED <<mod, chan, req, rooms, net, mailbox, calls, lastOp,
                 sendFailed>>
  /\ UNCHANGED <<pollsFailed, wire, rx, sentLog, ui>>
  /\ UNCHANGED <<air, mirror, gameRx, bind, orphans, sessions, joinCode,
                 season, solo>>

(***************************************************************************)
(* Negotiation: the asynchronous link operations the handlers started.     *)
(***************************************************************************)

\* sw.js 235-239: createOffer, then setLocalDescription, then the offer is
\* posted; a rejection of either is caught by nobody.
offerFlow(p, rejects) ==
  /\ p = "host"
  /\ LinkUsable(link[p])
  /\ link[p].op = "offer"
  /\ rejects => failures < MaxFailures
  /\ IF rejects
     THEN /\ link' = [link EXCEPT ![p].op = "idle"]
          /\ negFailed' = [negFailed EXCEPT ![p] = TRUE]
          /\ failures' = failures + 1
          /\ UNCHANGED net
     ELSE /\ link' = [link EXCEPT ![p].op = "idle", ![p].local = "offer",
                                  ![p].gather = NumCand]
          /\ net' = net \cup {sigSend(p, mod[p], Envelope("offer", 0))}
          /\ UNCHANGED <<negFailed, failures>>
  /\ UNCHANGED <<mod, chan, req, promise, rooms, mailbox, pollResp, calls,
                 lastOp, sendFailed, iceHandled>>
  /\ UNCHANGED <<pollsFailed, wire, rx, sentLog, ui>>
  /\ UNCHANGED raceVars

\* sw.js 277-286: createAnswer, then setLocalDescription, then the answer is
\* posted; a rejection of either rejects join()'s future.
answerFlow(p, rejects) ==
  /\ p = "joiner"
  /\ LinkUsable(link[p])
  /\ link[p].op = "answer"
  /\ rejects => failures < MaxFailures
  /\ IF rejects
     THEN /\ link' = [link EXCEPT ![p].op = "idle"]
          /\ negFailed' = [negFailed EXCEPT ![p] = TRUE]
          /\ promise' = [promise EXCEPT ![p] = IF @ = "pending" THEN "rejected" ELSE @]
          /\ failures' = failures + 1
          /\ UNCHANGED net
     ELSE /\ link' = [link EXCEPT ![p].op = "idle", ![p].local = "answer",
                                  ![p].gather = NumCand]
          /\ net' = net \cup {sigSend(p, mod[p], Envelope("answer", 0))}
          /\ UNCHANGED <<negFailed, promise, failures>>
  /\ UNCHANGED <<mod, chan, req, rooms, mailbox, pollResp, calls, lastOp,
                 sendFailed, iceHandled>>
  /\ UNCHANGED <<pollsFailed, wire, rx, sentLog, ui>>
  /\ UNCHANGED raceVars

\* sw.js 123-127: the link gathered a candidate and it is posted.
onicecandidate(p) ==
  /\ LinkUsable(link[p])
  /\ link[p].gather > 0
  /\ link' = [link EXCEPT ![p].gather = @ - 1]
  /\ net' = net \cup {sigSend(p, mod[p], Envelope("ice", NumCand - link[p].gather + 1))}
  /\ UNCHANGED <<mod, chan, req, promise, rooms, mailbox, pollResp, calls,
                 lastOp, sendFailed, negFailed, iceHandled, failures>>
  /\ UNCHANGED <<pollsFailed, wire, rx, sentLog, ui>>
  /\ UNCHANGED raceVars

(***************************************************************************)
(* The peer link and its two channels.                                     *)
(***************************************************************************)

\* Both sides hold the offer and the answer.
DescriptionsSet ==
  /\ link["host"].local = "offer" /\ link["host"].remote = "answer"
  /\ link["joiner"].remote = "offer" /\ link["joiner"].local = "answer"

\* RTCPeerConnection (sw.js 121): the transport comes up between two live
\* links that hold both descriptions once one side knows a candidate of the
\* other to send its connectivity checks to.
Connectable ==
  /\ \A p \in Peers : LinkUsable(link[p])
  /\ DescriptionsSet
  /\ \E p \in Peers : link[p].cands > 0

\* ondatachannel's choice of handlers as it would be with the two labels
\* exchanged.
handleIncomingChannelsSwapped(label) ==
  CASE label = "game" -> "setupDcReliable"
    [] label = "reliable" -> "setupDcGame"
    [] OTHER -> "unbound"

\* sw.js 183-190: the handlers ondatachannel sets on an inbound channel, by
\* its label; a channel of another label is left as it came.
handleIncomingChannels(label) ==
  CASE label = "game" -> "setupDcGame"
    [] label = "reliable" -> "setupDcReliable"
    [] OTHER -> "unbound"

\* sw.js 181-192: the joiner is told of an inbound channel: one of the two
\* the host created, or one of another label a foreign peer created.  The
\* module keeps a reference to the first two.
ondatachannel(p, label) ==
  /\ p = "joiner"
  /\ Connectable
  /\ bind[p][label] = "none"
  /\ IF label \in {"game", "reliable"}
     THEN /\ chan[p][label] = "none"
          /\ chan[Other(p)][label] \in {"connecting", "open"}
          /\ chan' = [chan EXCEPT ![p][label] = "connecting"]
          /\ mod' = IF label = "game"
                    THEN [mod EXCEPT ![p].dcGame = "dc"]
                    ELSE [mod EXCEPT ![p].dcReliable = "dc"]
     ELSE UNCHANGED <<chan, mod>>
  /\ bind' = [bind EXCEPT ![p][label] = handleIncomingChannels(label)]
  /\ UNCHANGED <<link, req, promise, rooms, net, mailbox, pollResp, calls,
                 lastOp, sendFailed, negFailed, iceHandled, failures>>
  /\ UNCHANGED <<pollsFailed, wire, rx, sentLog, ui>>
  /\ UNCHANGED <<air, mirror, gameRx, orphans, sessions, joinCode, handled,
                 season, solo>>

\* sw.js 155-158: the 'game' channel's open event.
gameOpen(p) ==
  /\ Connectable
  /\ chan[p].game = "connecting"
  /\ chan' = [chan EXCEPT ![p].game = "open"]
  /\ LET o == CallOnOpen([m |-> [mod[p] EXCEPT !.connected = TRUE],
                          prom |-> promise[p], opens |-> calls[p].open,
                          u |-> ui[p]])
     IN /\ mod' = [mod EXCEPT ![p] = o.m]
        /\ promise' = [promise EXCEPT ![p] = o.prom]
        /\ calls' = [calls EXCEPT ![p].open = o.opens]
        /\ ui' = [ui EXCEPT ![p] = o.u]
  /\ UNCHANGED <<link, req, rooms, net, mailbox, pollResp, lastOp,
                 sendFailed, negFailed, iceHandled, failures>>
  /\ UNCHANGED <<pollsFailed, wire, rx, sentLog>>
  /\ UNCHANGED raceVars

\* reliableOpen as it would be if setupDcReliable carried the onopen handler
\* of setupDcGame.
reliableOpenConnects(p) ==
  /\ Connectable
  /\ chan[p].reliable = "connecting"
  /\ chan' = [chan EXCEPT ![p].reliable = "open"]
  /\ mod' = [mod EXCEPT ![p].connected = TRUE]
  /\ UNCHANGED <<link, req, promise, rooms, net, mailbox, pollResp,
                 calls, lastOp, sendFailed, negFailed, iceHandled, failures>>
  /\ UNCHANGED <<pollsFailed, wire, rx, sentLog, ui>>
  /\ UNCHANGED raceVars

\* sw.js 168-179: the 'reliable' channel opens; setupDcReliable listens to
\* its messages only.
reliableOpen(p) ==
  /\ Connectable
  /\ chan[p].reliable = "connecting"
  /\ chan' = [chan EXCEPT ![p].reliable = "open"]
  /\ UNCHANGED <<mod, link, req, promise, rooms, net, mailbox, pollResp,
                 calls, lastOp, sendFailed, negFailed, iceHandled, failures>>
  /\ UNCHANGED <<pollsFailed, wire, rx, sentLog, ui>>
  /\ UNCHANGED raceVars

\* sw.js 133, 161: if (onClose) onClose().
CallOnClose(m, c) == IF m.onClose # "null" THEN [c EXCEPT !.close = @ + 1] ELSE c

\* game.js 731-751, the close callback mpSetupCallbacks() installs: in a race
\* it shows the label and arms the 3 s timer, elsewhere it goes back to the
\* main menu.
ownerOnClose(u) ==
  IF u.mode = "mp_race" THEN [u EXCEPT !.mpConnected = FALSE, !.timer = TRUE]
  ELSE [u EXCEPT !.mpConnected = FALSE, !.mode = "main_menu", !.overlay = FALSE]

\* The owner's variables after if (onClose) onClose().
UiOnClose(m, u) == IF m.onClose # "null" THEN ownerOnClose(u) ELSE u

\* sw.js 159-162: the 'game' channel's close event, after a local close() or
\* after the other side closed the channel it was open to.
gameClose(p) ==
  /\ \/ chan[p].game = "closing"
     \/ chan[p].game = "open" /\ chan[Other(p)].game \in {"closing", "closed"}
  /\ chan' = [chan EXCEPT ![p].game = "closed"]
  /\ mod' = [mod EXCEPT ![p].connected = FALSE]
  /\ calls' = [calls EXCEPT ![p] = CallOnClose(mod[p], @)]
  /\ ui' = [ui EXCEPT ![p] = UiOnClose(mod[p], @)]
  /\ UNCHANGED <<link, req, promise, rooms, net, mailbox, pollResp, lastOp,
                 sendFailed, negFailed, iceHandled, failures>>
  /\ UNCHANGED <<pollsFailed, wire, rx, sentLog>>
  /\ UNCHANGED raceVars

\* sw.js 129-135: the link reports disconnected, failed or closed: the far
\* side closed its link, or the network dropped.
onconnectionstatechange(p) ==
  /\ LinkUsable(link[p])
  /\ link[p].local # "none" /\ link[p].remote # "none"
  /\ link[Other(p)].state = "closed" \/ failures < MaxFailures
  /\ failures' = IF link[Other(p)].state = "closed" THEN failures ELSE failures + 1
  /\ LET s == cleanup(PeerState(p))
     IN /\ SetPeer(p, s)
        /\ calls' = [calls EXCEPT ![p] = CallOnClose(s.m, @)]
        /\ ui' = [ui EXCEPT ![p] = UiOnClose(s.m, @)]
  /\ UNCHANGED <<req, promise, rooms, net, mailbox, pollResp, lastOp,
                 sendFailed, negFailed, iceHandled>>
  /\ UNCHANGED <<pollsFailed, wire, rx, sentLog>>
  /\ UNCHANGED raceVars

(***************************************************************************)
(* The specifications.                                                     *)
(***************************************************************************)

Next ==
  \/ \E p \in Peers :
       \/ startHosting(p)
       \/ hostThen(p)
       \/ hostFailed(p)
       \/ \E code \in JoinInputs : joinGame(p, code)
       \/ joinThen(p)
       \/ joinFailed(p)
       \/ mpCleanup(p)
       \/ pollTick(p)
       \/ pollFails(p)
       \/ \E rejects \in BOOLEAN : pollHandle(p, rejects)
       \/ \E rejects \in BOOLEAN : offerFlow(p, rejects)
       \/ \E rejects \in BOOLEAN : answerFlow(p, rejects)
       \/ onicecandidate(p)
       \/ \E label \in Labels : ondatachannel(p, label)
       \/ gameOpen(p)
       \/ reliableOpen(p)
       \/ gameClose(p)
       \/ onconnectionstatechange(p)
  \/ \E r \in net : sigSendArrives(r)
  \/ \E r \in net : sigSendFails(r)

Spec == Init /\ [][Next]_vars

\* The handshake over a best-effort mailbox: as Next, and the room service
\* may deliver malformed envelopes.
MailboxNext ==
  \/ Next
  \/ \E p \in Peers : \E g \in Malformed : garbageArrives(p, g)

MailboxSpec == Init /\ [][MailboxNext]_vars

\* The handshake with a room service that may file a well-formed envelope
\* in the wrong mailbox.
StrayNext ==
  \/ Next
  \/ \E p \in Peers : \E g \in Stray(p) : strayArrives(p, g)

StraySpec == Init /\ [][StrayNext]_vars

\* The open callback of the owner of p (game.js 814-820, 935-943).
OwnerOnOpen(p) == IF p = "host" THEN "hostOnOpen" ELSE "joinOnOpen"

\* sw.js 344, set onOpen(fn): an owner assigns its open callback after its
\* call of host() or join(); the function replaces whatever is in the slot.
setOnOpen(p) ==
  /\ lastOp[p] = "start"
  /\ mod[p].onOpen # <<OwnerOnOpen(p)>>
  /\ mod' = [mod EXCEPT ![p].onOpen = <<OwnerOnOpen(p)>>]
  /\ UNCHANGED <<link, chan, req, promise, rooms, net, mailbox, pollResp,
                 calls, lastOp, sendFailed, negFailed, iceHandled, failures,
                 pollsFailed, wire, rx, sentLog, ui>>
  /\ UNCHANGED raceVars

\* The handshake under an owner that assigns its open callback at a time
\* of its choosing: as Next, and the assignment may come after the call.
OwnerNext ==
  \/ Next
  \/ \E p \in Peers : setOnOpen(p)

OwnerSpec == Init /\ [][OwnerNext]_vars

\* The handshake with nothing going wrong: no request fails, no link
\* operation is rejected, the link is not lost, nobody calls cleanup(), and
\* the joiner types the code the host was given.
LiveNext ==
  \/ \E p \in Peers :
       \/ startHosting(p)
       \/ hostThen(p)
       \/ \E code \in JoinInputs : promise["host"] = "resolved" /\ joinGame(p, code)
       \/ joinThen(p)
       \/ pollTick(p)
       \/ pollHandle(p, FALSE)
       \/ offerFlow(p, FALSE)
       \/ answerFlow(p, FALSE)
       \/ onicecandidate(p)
       \/ \E label \in Labels : ondatachannel(p, label)
       \/ gameOpen(p)
       \/ reliableOpen(p)
  \/ \E r \in net : sigSendArrives(r)

\* Every request is answered, every timer tick and every event of the link
\* is eventually delivered, and both owners do start their session.
LiveFairness ==
  /\ \A p \in Peers :
       /\ WF_vars(startHosting(p))
       /\ WF_vars(hostThen(p))
       /\ WF_vars(\E code \in JoinInputs : promise["host"] = "resolved" /\ joinGame(p, code))
       /\ WF_vars(joinThen(p))
       /\ WF_vars(pollTick(p))
       /\ WF_vars(pollHandle(p, FALSE))
       /\ WF_vars(offerFlow(p, FALSE))
       /\ WF_vars(answerFlow(p, FALSE))
       /\ WF_vars(onicecandidate(p))
       /\ WF_vars(\E label \in Labels : ondatachannel(p, label))
       /\ WF_vars(gameOpen(p))
       /\ WF_vars(reliableOpen(p))
  /\ WF_vars(\E r \in net : sigSendArrives(r))

LiveSpec == Init /\ [][LiveNext]_vars /\ LiveFairness

BothConnected == \A p \in Peers : mod[p].connected

\* C1: with no failure and fair polling, the handshake ends with
\* isConnected() true on the host and on the joiner.
C1_HandshakeConnects == <>BothConnected

(***************************************************************************)
(* The control messages on the 'reliable' channel.                         *)
(***************************************************************************)

\* Indices the host's track selection can stand at (game.js 843-862).
Tracks == {0, 1}

Digit(i) == IF i = 0 THEN "0" ELSE "1"

Number(d) == IF d = "0" THEN 0 ELSE 1

\* game.js 865, 954, 1033: the three control messages.
Track(i) == [type |-> "track", trackIndex |-> i]

Finished == [type |-> "finished"]

Quit == [type |-> "quit"]

\* sw.js 315, JSON.stringify(obj): the text as a sequence of tokens.
stringify(obj) ==
  IF "trackIndex" \in DOMAIN obj
  THEN <<"{", "type", obj.type, "trackIndex", Digit(obj.trackIndex), "}">>
  ELSE <<"{", "type", obj.type, "}">>

\* sw.js 173, JSON.parse(e.data): the value, or ok = FALSE where it throws.
parse(text) ==
  IF Len(text) = 4 /\ text[1] = "{" /\ text[2] = "type" /\ text[4] = "}"
  THEN [ok |-> TRUE, val |-> [type |-> text[3]]]
  ELSE IF Len(text) = 6 /\ text[1] = "{" /\ text[2] = "type"
          /\ text[4] = "trackIndex" /\ text[5] \in {"0", "1"} /\ text[6] = "}"
  THEN [ok |-> TRUE, val |-> [type |-> text[3], trackIndex |-> Number(text[5])]]
  ELSE [ok |-> FALSE]

\* A control message of a type this owner does not know.
Unknown == [type |-> "ping"]

\* A payload that is no JSON text: a message cut short.
Truncated == <<"{", "type", "quit">>

sendReliableUnchecked(m, c, w, obj) == Append(w, stringify(obj))

\* sw.js 313-317 on the payloads w the side has in flight: the text is handed
\* to the channel only if the module holds the channel and it is open.
sendReliable(m, c, w, obj) ==
  IF m.dcReliable # "null" /\ c.reliable = "open"
  THEN Append(w, stringify(obj))
  ELSE w

\* The entry of sentLog for a call sendReliable(obj): whether isConnected()
\* was true, and whether the text was handed to the channel.
LogEntry(m, c, obj) ==
  [msg |-> obj, connected |-> m.connected,
   put |-> m.dcReliable # "null" /\ c.reliable = "open"]

ownerOnReliableMessageQuitsOnUnknown(u, m, msg) ==
  CASE msg.type = "track" /\ ~m.isHost ->
         fadeAndDo([u EXCEPT !.track = msg.trackIndex], "track")
    [] msg.type = "finished" -> [u EXCEPT !.mpOpponentFinished = TRUE]
    [] OTHER ->
         [u EXCEPT !.mpConnected = FALSE,
                   !.timer = IF u.mode = "mp_race" THEN TRUE ELSE @]

\* game.js 699-729, the reliable-message callback mpSetupCallbacks() installs,
\* on the owner's variables: 'track' on the joiner selects the track and
\* asks fadeAndDo() for the race start, 'finished' sets the flag, 'quit'
\* during a race arms the 3 s timer.
ownerOnReliableMessage(u, m, msg) ==
  CASE msg.type = "track" /\ ~m.isHost ->
         fadeAndDo([u EXCEPT !.track = msg.trackIndex], "track")
    [] msg.type = "finished" -> [u EXCEPT !.mpOpponentFinished = TRUE]
    [] msg.type = "quit" ->
         [u EXCEPT !.mpConnected = FALSE,
                   !.timer = IF u.mode = "mp_race" THEN TRUE ELSE @]
    [] OTHER -> u

\* onmessage as it would be if a text that does not parse were passed to the
\* callback as it is.
onmessageUnparsed(r, m, text) ==
  IF m.onReliableMessage = "null" THEN r
  ELSE IF parse(text).ok
       THEN [events |-> Append(r.events, [kind |-> "message", val |-> parse(text).val]),
             u |-> ownerOnReliableMessage(r.u, m, parse(text).val)]
       ELSE [r EXCEPT !.events = Append(@, [kind |-> "message",
                                            val |-> [type |-> "text"]])]

\* sw.js 170-178 on r = [events: what the handler did so far, u: the owner's
\* variables]: with a callback in the slot the text is parsed and the value
\* passed on; a text that does not parse is warned about.
onmessage(r, m, text) ==
  IF m.onReliableMessage = "null" THEN r
  ELSE IF parse(text).ok
       THEN [events |-> Append(r.events, [kind |-> "message", val |-> parse(text).val]),
             u |-> ownerOnReliableMessage(r.u, m, parse(text).val)]
       ELSE [r EXCEPT !.events = Append(@, [kind |-> "warn"])]

\* game.js 843-877, the track selection of the host with its GO button: the
\* track the host stepped to is announced, the overlay with the button goes,
\* and fadeAndDo() is asked for the host's own race start.
showMpHostTrackGo(p, i) ==
  /\ ui[p].mode = "mp_host_track"
  /\ ui[p].overlay
  /\ wire' = [wire EXCEPT ![p] = sendReliable(mod[p], chan[p], @, Track(i))]
  /\ sentLog' = [sentLog EXCEPT ![p] = Append(@, LogEntry(mod[p], chan[p], Track(i)))]
  /\ ui' = [ui EXCEPT ![p] = fadeAndDo([@ EXCEPT !.track = i, !.overlay = FALSE], "go")]
  /\ UNCHANGED <<mod, link, chan, req, promise, rooms, net, mailbox, pollResp,
                 calls, lastOp, sendFailed, negFailed, iceHandled, failures,
                 pollsFailed, rx>>
  /\ UNCHANGED raceVars

\* game.js 952-959: the local race is over; the opponent is told if the
\* session is connected, and the result screen is shown.
finishMpRace(p) ==
  /\ ui[p].mode = "mp_race"
  /\ IF mod[p].connected
     THEN /\ wire' = [wire EXCEPT ![p] = sendReliable(mod[p], chan[p], @, Finished)]
          /\ sentLog' = [sentLog EXCEPT ![p] = Append(@, LogEntry(mod[p], chan[p], Finished))]
     ELSE UNCHANGED <<wire, sentLog>>
  /\ ui' = [ui EXCEPT ![p].mode = "mp_result"]
  /\ UNCHANGED <<mod, link, chan, req, promise, rooms, net, mailbox, pollResp,
                 calls, lastOp, sendFailed, negFailed, iceHandled, failures,
                 pollsFailed, rx>>
  /\ UNCHANGED raceVars

\* game.js 1026-1027, the menu button or key during a multiplayer race:
\* fadeAndDo() is asked for the way out.
IsTrack(e) == e.msg.type = "track"

\* game.js 975-988, the AGAIN button of the result screen, which comes up
\* when a race is over, long after the fade that started the race: the host
\* goes back to its track screen (showMpHostTrack, game.js 832-862), the
\* joiner to its waiting screen.
playAgain(p) ==
  /\ ui[p].mode = "mp_result"
  /\ ui[p].fade = "none"
  /\ Len(SelectSeq(sentLog["host"], IsTrack)) < MaxRaces
  /\ ui' = [ui EXCEPT ![p].mode = IF mod[p].isHost THEN "mp_host_track"
                                  ELSE "mp_join_lobby",
                      ![p].overlay = mod[p].isHost,
                      ![p].mpOpponentFinished = FALSE]
  /\ UNCHANGED <<mod, link, chan, req, promise, rooms, net, mailbox, pollResp,
                 calls, lastOp, sendFailed, negFailed, iceHandled, failures,
                 pollsFailed, wire, rx, sentLog>>
  /\ UNCHANGED raceVars

\* The peer's owner is of a later version and sends a control message of
\* a type this one does not know (sw.js 313-317 on the peer).
unknownSent(p) ==
  /\ chan[p].reliable = "open"
  /\ failures < MaxFailures
  /\ failures' = failures + 1
  /\ wire' = [wire EXCEPT ![p] = Append(@, stringify(Unknown))]
  /\ UNCHANGED <<mod, link, chan, req, promise, rooms, net, mailbox, pollResp,
                 calls, lastOp, sendFailed, negFailed, iceHandled,
                 pollsFailed, rx, sentLog, ui>>
  /\ UNCHANGED raceVars

handleMenuDuringRace(p) ==
  /\ ui[p].mode = "mp_race"
  /\ ui[p].fade = "none"
  /\ ui' = [ui EXCEPT ![p] = fadeAndDo(@, "menu")]
  /\ UNCHANGED <<mod, link, chan, req, promise, rooms, net, mailbox, pollResp,
                 calls, lastOp, sendFailed, negFailed, iceHandled, failures,
                 pollsFailed, wire, rx, sentLog>>
  /\ UNCHANGED raceVars

\* game.js 249-251, 350 ms after fadeAndDo(): the scheduled callback runs.
\* "track" (game.js 706-712) and "go" (game.js 868-876) start the race;
\* "menu" (game.js 1027-1053) in a multiplayer race tells the opponent if the
\* session is connected and tears the session down, in any other mode it
\* only goes to the main menu.
fadeCallback(p) ==
  /\ ui[p].fade \in {"track", "go", "menu"}
  /\ IF ui[p].fade = "menu" /\ ui[p].mode = "mp_race"
     THEN /\ IF mod[p].connected
             THEN /\ wire' = [wire EXCEPT ![p] = sendReliable(mod[p], chan[p], @, Quit)]
                  /\ sentLog' = [sentLog EXCEPT ![p] = Append(@, LogEntry(mod[p], chan[p], Quit))]
             ELSE UNCHANGED <<wire, sentLog>>
          /\ SetPeer(p, cleanup(PeerState(p)))
          /\ lastOp' = [lastOp EXCEPT ![p] = "cleanup"]
          /\ ui' = [ui EXCEPT ![p].mode = "main_menu", ![p].mpConnected = FALSE,
                              ![p].mpOpponentFinished = FALSE,
                              ![p].fade = "clear"]
     ELSE /\ ui' = [ui EXCEPT ![p].mode = IF ui[p].fade = "menu" THEN "main_menu"
                                         ELSE "mp_race",
                              ![p].mpOpponentFinished =
                                 IF ui[p].fade = "go" THEN FALSE ELSE @,
                              ![p].fade = "clear"]
          /\ UNCHANGED <<mod, link, chan, lastOp, wire, sentLog>>
  /\ UNCHANGED <<req, promise, rooms, net, mailbox, pollResp, calls,
                 sendFailed, negFailed, iceHandled, failures, pollsFailed, rx>>
  /\ UNCHANGED raceVars

\* game.js 252-255, 60 ms after the callback: fading = false.
fadeEnd(p) ==
  /\ ui[p].fade = "clear"
  /\ ui' = [ui EXCEPT ![p].fade = "none"]
  /\ UNCHANGED <<mod, link, chan, req, promise, rooms, net, mailbox, pollResp,
                 calls, lastOp, sendFailed, negFailed, iceHandled, failures,
                 pollsFailed, wire, rx, sentLog>>
  /\ UNCHANGED raceVars

\* game.js 722-728 and 737-743: the 3 s timer armed by a 'quit' message or
\* by the close callback during a race fires.
opponentQuitTimer(p) ==
  /\ ui[p].timer
  /\ SetPeer(p, cleanup(PeerState(p)))
  /\ lastOp' = [lastOp EXCEPT ![p] = "cleanup"]
  /\ ui' = [ui EXCEPT ![p].mode = "main_menu", ![p].timer = FALSE,
                      ![p].mpConnected = FALSE, ![p].mpOpponentFinished = FALSE]
  /\ UNCHANGED <<req, promise, rooms, net, mailbox, pollResp, calls,
                 sendFailed, negFailed, iceHandled, failures, pollsFailed,
                 wire, rx, sentLog>>
  /\ UNCHANGED raceVars

\* sw.js 163-165 and 170-178: the message event of a channel carrying data
\* runs the handler h that was set on that channel, on r = [events: what the
\* 'reliable' handler did so far, u: the owner's variables, mir: the
\* opponent's state, grx: the calls of the state-message callback].  The
\* handler of setupDcGame passes e.data to the callback in the onMessage
\* slot; the handler of setupDcReliable parses e.data, and a buffer is no
\* JSON text.
dcMessage(r, m, h, data) ==
  CASE h = "setupDcGame" ->
         IF m.onMessage = "null" THEN r
         ELSE [r EXCEPT !.mir = mpReceiveState(@, data),
                        !.grx = [n |-> @.n + 1, last |-> data,
                                 big |-> IF data.buffer
                                            /\ Len(data.bytes) >= PacketBytes
                                         THEN data ELSE @.big]]
    [] h = "setupDcReliable" ->
         LET o == onmessage([events |-> r.events, u |-> r.u], m,
                            IF data.buffer THEN <<>> ELSE data.bytes)
         IN [r EXCEPT !.events = o.events, !.u = o.u]
    [] OTHER -> r

\* reliableMessage as it would be on a channel created with ordered: false:
\* any payload in flight may be the next one delivered.
reliableMessageUnordered(q) ==
  /\ chan[q].reliable = "open"
  /\ \E i \in DOMAIN wire[Other(q)] :
       /\ wire' = [wire EXCEPT ![Other(q)] =
                     SubSeq(@, 1, i - 1) \o SubSeq(@, i + 1, Len(@))]
       /\ LET r == onmessage([events |-> rx[q], u |-> ui[q]], mod[q],
                             wire[Other(q)][i])
          IN /\ rx' = [rx EXCEPT ![q] = r.events]
             /\ ui' = [ui EXCEPT ![q] = r.u]
  /\ UNCHANGED <<mod, link, chan, req, promise, rooms, net, mailbox, pollResp,
                 calls, lastOp, sendFailed, negFailed, iceHandled, failures,
                 pollsFailed, sentLog>>
  /\ UNCHANGED raceVars

\* sw.js 170-178: the message event of the channel labelled 'reliable' of q,
\* for the oldest payload the other side has in flight.
reliableMessage(q) ==
  /\ chan[q].reliable = "open"
  /\ wire[Other(q)] # <<>>
  /\ wire' = [wire EXCEPT ![Other(q)] = Tail(@)]
  /\ LET r == dcMessage([events |-> rx[q], u |-> ui[q], mir |-> mirror[q],
                         grx |-> gameRx[q]], mod[q], bind[q]["reliable"],
                        [buffer |-> FALSE, bytes |-> Head(wire[Other(q)])])
     IN /\ rx' = [rx EXCEPT ![q] = r.events]
        /\ ui' = [ui EXCEPT ![q] = r.u]
        /\ mirror' = [mirror EXCEPT ![q] = r.mir]
        /\ gameRx' = [gameRx EXCEPT ![q] = r.grx]
  /\ UNCHANGED <<mod, link, chan, req, promise, rooms, net, mailbox, pollResp,
                 calls, lastOp, sendFailed, negFailed, iceHandled, failures,
                 pollsFailed, sentLog>>
  /\ UNCHANGED <<air, bind, orphans, sessions, joinCode, handled, season,
                 solo>>

\* sw.js 168-179: the close event of the 'reliable' channel of p, after the
\* other side closed its end or when the channel is dropped; setupDcReliable
\* installs no handler for it.  What was in flight towards p is gone.
reliableClose(p) ==
  /\ chan[p].reliable = "open"
  /\ chan[Other(p)].reliable = "closed" \/ failures < MaxFailures
  /\ failures' = IF chan[Other(p)].reliable = "closed" THEN failures
                 ELSE failures + 1
  /\ chan' = [chan EXCEPT ![p].reliable = "closed"]
  /\ wire' = [wire EXCEPT ![Other(p)] = <<>>]
  /\ UNCHANGED <<mod, link, req, promise, rooms, net, mailbox, pollResp,
                 calls, lastOp, sendFailed, negFailed, iceHandled,
                 pollsFailed, rx, sentLog, ui>>
  /\ UNCHANGED raceVars

\* The page of p puts a payload that is no JSON text on its open 'reliable'
\* channel.
garbageSent(p) ==
  /\ chan[p].reliable = "open"
  /\ failures < MaxFailures
  /\ failures' = failures + 1
  /\ wire' = [wire EXCEPT ![p] = Append(@, Truncated)]
  /\ UNCHANGED <<mod, link, chan, req, promise, rooms, net, mailbox, pollResp,
                 calls, lastOp, sendFailed, negFailed, iceHandled,
                 pollsFailed, rx, sentLog, ui>>
  /\ UNCHANGED raceVars

\* Payloads one side has in flight on the 'game' channel.
MaxAir == 2

\* Calls of the state-message callback on one side.
MaxRx == 2

\* sw.js 307-311 on the payloads a the side has in flight: the buffer is
\* handed to the channel only if the module holds the channel and it is open.
send(m, c, a, arrayBuffer) ==
  IF m.dcGame # "null" /\ c.game = "open" THEN a \cup {arrayBuffer} ELSE a

\* game.js 1357-1359 and 677-689: a frame of a multiplayer race; x is what
\* the engine reports for the local car.
mpSendState(p, x) ==
  /\ ui[p].mode = "mp_race"
  /\ ui[p].mpConnected
  /\ mod[p].connected
  /\ Cardinality(air[p]) < MaxAir
  /\ air' = [air EXCEPT ![p] = send(mod[p], chan[p], @, StatePacket(x))]
  /\ UNCHANGED <<mod, link, chan, req, promise, rooms, net, mailbox, pollResp,
                 calls, lastOp, sendFailed, negFailed, iceHandled, failures,
                 pollsFailed, wire, rx, sentLog, ui>>
  /\ UNCHANGED <<mirror, gameRx, bind, orphans, sessions, joinCode, handled,
                 season, solo>>

\* sw.js 163-165: the message event of the channel labelled 'game' of q for
\* a payload d the other side has in flight.  The channel is unordered and
\* unreliable: any payload in flight may come next, and keep says that the
\* same payload will come once more.
gameMessage(q, d, keep) ==
  /\ chan[q].game = "open"
  /\ d \in air[Other(q)]
  /\ gameRx[q].n < MaxRx
  /\ air' = [air EXCEPT ![Other(q)] = IF keep THEN @ ELSE @ \ {d}]
  /\ LET r == dcMessage([events |-> rx[q], u |-> ui[q], mir |-> mirror[q],
                         grx |-> gameRx[q]], mod[q], bind[q]["game"], d)
     IN /\ rx' = [rx EXCEPT ![q] = r.events]
        /\ ui' = [ui EXCEPT ![q] = r.u]
        /\ mirror' = [mirror EXCEPT ![q] = r.mir]
        /\ gameRx' = [gameRx EXCEPT ![q] = r.grx]
  /\ UNCHANGED <<mod, link, chan, req, promise, rooms, net, mailbox, pollResp,
                 calls, lastOp, sendFailed, negFailed, iceHandled, failures,
                 pollsFailed, wire, sentLog>>
  /\ UNCHANGED <<bind, orphans, sessions, joinCode, handled, season, solo>>

\* sw.js 139-142, maxRetransmits: 0: a payload in flight is lost.
gameLoss(p, d) ==
  /\ d \in air[p]
  /\ air' = [air EXCEPT ![p] = @ \ {d}]
  /\ UNCHANGED <<mod, link, chan, req, promise, rooms, net, mailbox, pollResp,
                 calls, lastOp, sendFailed, negFailed, iceHandled, failures,
                 pollsFailed, wire, rx, sentLog, ui>>
  /\ UNCHANGED <<mirror, gameRx, bind, orphans, sessions, joinCode, handled,
                 season, solo>>

\* The page of p puts a payload that is no state packet on its open 'game'
\* channel.
foreignSent(p, d) ==
  /\ chan[p].game = "open"
  /\ d \in Foreign
  /\ Cardinality(air[p]) < MaxAir
  /\ failures < MaxFailures
  /\ failures' = failures + 1
  /\ air' = [air EXCEPT ![p] = @ \cup {d}]
  /\ UNCHANGED <<mod, link, chan, req, promise, rooms, net, mailbox, pollResp,
                 calls, lastOp, sendFailed, negFailed, iceHandled,
                 pollsFailed, wire, rx, sentLog, ui>>
  /\ UNCHANGED <<mirror, gameRx, bind, orphans, sessions, joinCode, handled,
                 season, solo>>

\* The state in which the handshake leaves the two sides when nothing went
\* wrong: both links hold both descriptions and the candidates, the host's
\* channels are created, both sides still poll, nothing is in flight.
SessionInit ==
  /\ mod = [p \in Peers |->
             [roomCode |-> ServerCode, peerId |-> IdOf(p), isHost |-> p = "host",
              pollTimer |-> TRUE, timers |-> 1, pc |-> "pc",
              dcGame |-> IF p = "host" THEN "dc" ELSE "null",
              dcReliable |-> IF p = "host" THEN "dc" ELSE "null",
              onOpen |-> IF p = "host" THEN <<"hostWrap", "hostOnOpen">>
                         ELSE <<"joinWrap", "joinOnOpen">>,
              onMessage |-> "owner", onReliableMessage |-> "owner",
              onClose |-> "owner", connected |-> FALSE]]
  /\ link = [p \in Peers |->
              [state |-> "new",
               local |-> IF p = "host" THEN "offer" ELSE "answer",
               remote |-> IF p = "host" THEN "answer" ELSE "offer",
               cands |-> NumCand, gather |-> 0, op |-> "idle"]]
  /\ chan = [p \in Peers |->
              IF p = "host" THEN [game |-> "connecting", reliable |-> "connecting"]
              ELSE InitChan]
  /\ req = [p \in Peers |->
             [st |-> "ok", code |-> IF p = "host" THEN NoCode ELSE ServerCode]]
  /\ promise = [p \in Peers |-> IF p = "host" THEN "resolved" ELSE "pending"]
  /\ rooms = {ServerCode}
  /\ net = {}
  /\ mailbox = [p \in Peers |-> <<>>]
  /\ pollResp = [p \in Peers |-> {}]
  /\ calls = [p \in Peers |-> [open |-> 0, close |-> 0]]
  /\ lastOp = [p \in Peers |-> "start"]
  /\ sendFailed = [p \in Peers |-> FALSE]
  /\ negFailed = [p \in Peers |-> FALSE]
  /\ iceHandled = [p \in Peers |-> NumCand]
  /\ failures = 0
  /\ pollsFailed = [p \in Peers |-> 0]
  /\ wire = [p \in Peers |-> <<>>]
  /\ rx = [p \in Peers |-> <<>>]
  /\ sentLog = [p \in Peers |-> <<>>]
  /\ ui = [p \in Peers |->
            [mode |-> IF p = "host" THEN "mp_host_lobby" ELSE "mp_join_lobby",
             timer |-> FALSE, mpConnected |-> FALSE, fade |-> "none",
             track |-> 0, overlay |-> FALSE, mpOpponentFinished |-> FALSE]]
  /\ air = [p \in Peers |-> {}]
  /\ mirror = [p \in Peers |-> NoOpponent]
  /\ gameRx = [p \in Peers |-> InitRx]
  /\ bind = [p \in Peers |-> IF p = "host" THEN setupDataChannelsBinds ELSE NoBind]
  /\ orphans = [p \in Peers |-> 0]
  /\ sessions = [p \in Peers |-> 1]
  /\ joinCode = [p \in Peers |-> IF p = "host" THEN NoCode ELSE ServerCode]
  /\ handled = [p \in Peers |-> IF p = "host" THEN {"joined", "answer", "ice"}
                                 ELSE {"offer", "ice"}]
  /\ season = NoSeason
  /\ solo = InitSolo

\* The session after the handshake: the channels open, the owners race,
\* finish and quit, control messages travel, channels and links are lost.
SessionNext ==
  \E p \in Peers :
    \/ \E label \in {"game", "reliable"} : ondatachannel(p, label)
    \/ gameOpen(p)
    \/ reliableOpen(p)
    \/ \E i \in Tracks : showMpHostTrackGo(p, i)
    \/ finishMpRace(p)
    \/ handleMenuDuringRace(p)
    \/ fadeCallback(p)
    \/ fadeEnd(p)
    \/ opponentQuitTimer(p)
    \/ mpCleanup(p)
    \/ reliableMessage(p)
    \/ garbageSent(p)
    \/ reliableClose(p)
    \/ gameClose(p)
    \/ onconnectionstatechange(p)

SessionSpec == SessionInit /\ [][SessionNext]_vars

\* The race after the handshake: the channels come up, the host starts the
\* race, both sides send a state packet per frame on a channel that loses,
\* repeats and reorders, and a foreign payload may arrive.
RaceNext ==
  \E p \in Peers :
    \/ \E label \in Labels : ondatachannel(p, label)
    \/ gameOpen(p)
    \/ reliableOpen(p)
    \/ \E i \in Tracks : showMpHostTrackGo(p, i)
    \/ fadeCallback(p)
    \/ fadeEnd(p)
    \/ reliableMessage(p)
    \/ \E x \in RaceStates : mpSendState(p, x)
    \/ \E d \in air[Other(p)] : \E keep \in BOOLEAN : gameMessage(p, d, keep)
    \/ \E d \in air[p] : gameLoss(p, d)
    \/ \E d \in Foreign : foreignSent(p, d)

RaceSpec == SessionInit /\ [][RaceNext]_vars

\* A session that ends and an owner that starts the next one: the channels
\* come up, either side leaves or loses the link, and the owner, back in the
\* main menu, hosts or joins again.
RestartNext ==
  \E p \in Peers :
    \/ \E label \in {"game", "reliable"} : ondatachannel(p, label)
    \/ gameOpen(p)
    \/ reliableOpen(p)
    \/ gameClose(p)
    \/ onconnectionstatechange(p)
    \/ mpCleanup(p)
    \/ startHostingAgain(p)
    \/ hostThen(p)
    \/ hostFailed(p)
    \/ \E code \in JoinInputs : joinGameAgain(p, code)
    \/ joinThen(p)
    \/ joinFailed(p)

RestartSpec == SessionInit /\ [][RestartNext]_vars

\* As RestartSpec, and the joiner's owner may press CONNECT again while its
\* first call of join() is still waiting for the host.
ReconnectNext ==
  \/ RestartNext
  \/ \E p \in Peers : \E code \in JoinInputs : connectAgain(p, code)

ReconnectSpec == SessionInit /\ [][ReconnectNext]_vars

\* The state of a race under way, as RaceSpec reaches it: both 'game' and
\* 'reliable' channels are open on both sides, the host announced track 0,
\* both fades are over, no packet was sent yet.
RacingInit ==
  /\ mod = [p \in Peers |->
             [roomCode |-> ServerCode, peerId |-> IdOf(p), isHost |-> p = "host",
              pollTimer |-> FALSE, timers |-> 0, pc |-> "pc", dcGame |-> "dc",
              dcReliable |-> "dc",
              onOpen |-> IF p = "host" THEN <<"hostOnOpen">> ELSE <<"joinOnOpen">>,
              onMessage |-> "owner",
              onReliableMessage |-> IF p = "host" THEN "null" ELSE "owner",
              onClose |-> "owner", connected |-> TRUE]]
  /\ link = [p \in Peers |->
              [state |-> "new",
               local |-> IF p = "host" THEN "offer" ELSE "answer",
               remote |-> IF p = "host" THEN "answer" ELSE "offer",
               cands |-> NumCand, gather |-> 0, op |-> "idle"]]
  /\ chan = [p \in Peers |-> [game |-> "open", reliable |-> "open"]]
  /\ req = [p \in Peers |->
             [st |-> "ok", code |-> IF p = "host" THEN NoCode ELSE ServerCode]]
  /\ promise = [p \in Peers |-> "resolved"]
  /\ rooms = {ServerCode}
  /\ net = {}
  /\ mailbox = [p \in Peers |-> <<>>]
  /\ pollResp = [p \in Peers |-> {}]
  /\ calls = [p \in Peers |-> [open |-> 1, close |-> 0]]
  /\ lastOp = [p \in Peers |-> "start"]
  /\ sendFailed = [p \in Peers |-> FALSE]
  /\ negFailed = [p \in Peers |-> FALSE]
  /\ iceHandled = [p \in Peers |-> NumCand]
  /\ failures = 0
  /\ pollsFailed = [p \in Peers |-> 0]
  /\ wire = [p \in Peers |-> <<>>]
  /\ rx = [p \in Peers |->
            IF p = "host" THEN <<>> ELSE <<[kind |-> "message", val |-> Track(0)]>>]
  /\ sentLog = [p \in Peers |->
                 IF p = "host"
                 THEN <<[msg |-> Track(0), connected |-> TRUE, put |-> TRUE]>>
                 ELSE <<>>]
  /\ ui = [p \in Peers |->
            [mode |-> "mp_race", timer |-> FALSE, mpConnected |-> TRUE,
             fade |-> "none", track |-> 0, overlay |-> FALSE,
             mpOpponentFinished |-> FALSE]]
  /\ air = [p \in Peers |-> {}]
  /\ mirror = [p \in Peers |-> NoOpponent]
  /\ gameRx = [p \in Peers |-> InitRx]
  /\ bind = [p \in Peers |-> setupDataChannelsBinds]
  /\ orphans = [p \in Peers |-> 0]
  /\ sessions = [p \in Peers |-> 1]
  /\ joinCode = [p \in Peers |-> IF p = "host" THEN NoCode ELSE ServerCode]
  /\ handled = [p \in Peers |-> IF p = "host" THEN {"joined", "answer", "ice"}
                                 ELSE {"offer", "ice"}]
  /\ season = NoSeason
  /\ solo = InitSolo

\* The frames of a race on a channel that loses, repeats and reorders, for
\* every state of the car in CarStates.
CodecNext ==
  \E p \in Peers :
    \/ \E x \in CarStates : mpSendState(p, x)
    \/ \E d \in air[Other(p)] : \E keep \in BOOLEAN : gameMessage(p, d, keep)
    \/ \E d \in air[p] : gameLoss(p, d)

CodecSpec == RacingInit /\ [][CodecNext]_vars

\* A session with further races, from the state in which both sides race:
\* the races end, both sides ask for another race, the host picks a track
\* again, and either side may ask for the menu during a race.
RematchNext ==
  \E p \in Peers :
    \/ \E i \in Tracks : showMpHostTrackGo(p, i)
    \/ finishMpRace(p)
    \/ playAgain(p)
    \/ handleMenuDuringRace(p)
    \/ fadeCallback(p)
    \/ fadeEnd(p)
    \/ reliableMessage(p)

RematchSpec == RacingInit /\ [][RematchNext]_vars

\* As RematchSpec, and the peer may send a control message of an unknown
\* type.
ControlNext ==
  \/ RematchNext
  \/ \E p \in Peers : unknownSent(p)

ControlSpec == RacingInit /\ [][ControlNext]_vars

\* A race that ends by one side leaving, and what the owners do in the
\* three seconds after: the menu button, messages and close events arrive,
\* the quit timer runs, and an owner back in the main menu hosts or joins
\* again.
TimerNext ==
  \E p \in Peers :
    \/ handleMenuDuringRace(p)
    \/ fadeCallback(p)
    \/ fadeEnd(p)
    \/ reliableMessage(p)
    \/ gameClose(p)
    \/ opponentQuitTimer(p)
    \/ startHostingAgain(p)
    \/ hostThen(p)
    \/ \E code \in JoinInputs : joinGameAgain(p, code)
    \/ joinThen(p)

TimerSpec == RacingInit /\ [][TimerNext]_vars

(***************************************************************************)
(* The claims.                                                             *)
(***************************************************************************)

\* C1 is C1_HandshakeConnects above, under LiveSpec.

\* C2: isConnected() turns true only in the step in which the 'game' channel
\* opens, it is true after every such step, and a step in which the
\* 'reliable' channel opens leaves isConnected() as it was.
C2_ConnectedOnlyOnGameOpen ==
  [][\A p \in Peers :
       /\ (~mod[p].connected /\ mod'[p].connected)
            => (chan[p].game = "connecting" /\ chan'[p].game = "open")
       /\ (chan[p].game # "open" /\ chan'[p].game = "open")
            => mod'[p].connected
       /\ (chan[p].reliable # "open" /\ chan'[p].reliable = "open")
            => mod'[p].connected = mod[p].connected]_vars

\* One side is connected while its reliable channel has not opened, the
\* other side's reliable channel is open while it is not connected.
C2_Witness ==
  \E p \in Peers :
    /\ mod[p].connected /\ chan[p].reliable # "open"
    /\ ~mod[Other(p)].connected /\ chan[Other(p)].reliable = "open"

\* The module holds nothing of a session.
Closed(p) ==
  /\ ~mod[p].pollTimer
  /\ ~mod[p].connected
  /\ mod[p].pc = "null" /\ mod[p].dcGame = "null" /\ mod[p].dcReliable = "null"
  /\ mod[p].roomCode = NoCode /\ mod[p].peerId = ""

\* C3: while cleanup() is the last lifecycle call of a side, its module is
\* Closed: no poll timer, no link, no channel, not connected, no room code
\* and no peer id.
C3_ClosedAfterCleanup == \A p \in Peers : lastOp[p] = "cleanup" => Closed(p)

\* C4: from every reachable state cleanup() releases everything, and a
\* second cleanup() changes nothing the first one left.
C4_CleanupIdempotent ==
  \A p \in Peers :
    LET once == cleanup(PeerState(p)) IN
      /\ cleanup(once) = once
      /\ ~once.m.pollTimer /\ ~once.m.connected
      /\ once.m.pc = "null" /\ once.m.dcGame = "null" /\ once.m.dcReliable = "null"
      /\ once.m.roomCode = NoCode /\ once.m.peerId = ""

\* cleanup() has run on a session that was Connected and on one that was
\* still polling.
C4_Witness ==
  /\ lastOp["host"] = "cleanup" /\ calls["host"].open > 0 /\ Closed("host")
  /\ lastOp["joiner"] = "cleanup" /\ calls["joiner"].open = 0
  /\ req["joiner"].st = "ok" /\ Closed("joiner")

\* C5: a running poll timer implies that the side is not connected and that
\* cleanup() was not its last lifecycle call.
C5_NoPollWhenConnectedOrClosed ==
  \A p \in Peers :
    mod[p].pollTimer => ~mod[p].connected /\ lastOp[p] # "cleanup"

\* C6: once the remote description is set on a link, every candidate its
\* poll handler was handed, also those handed before, has been applied.
C6_EarlyCandidateApplied ==
  \A p \in Peers :
    LinkUsable(link[p]) /\ link[p].remote # "none"
      => link[p].cands = iceHandled[p]

\* Every envelope of the handshake was posted, delivered and handled, with
\* no failure and no cleanup().
AllHandled ==
  /\ failures = 0
  /\ net = {}
  /\ DescriptionsSet
  /\ \A p \in Peers :
       /\ lastOp[p] = "start" /\ req[p].st = "ok" /\ ~sendFailed[p]
       /\ LinkUsable(link[p]) /\ link[p].gather = 0 /\ link[p].op = "idle"
       /\ mailbox[p] = <<>> /\ pollResp[p] = {}
       /\ iceHandled[p] = NumCand

\* C7: in whatever order the envelopes were delivered, once all of them have
\* been handled the link can come up, as it can when they are delivered in
\* their causal order.
C7_ReorderingInvariant == AllHandled => Connectable

C9_SendFailureSurfaces ==
  \A p \in Peers :
    sendFailed[p] => promise[p] = "rejected" \/ mod[p].pc = "null"

\* C10: when a link operation of the negotiation was rejected, polling has
\* stopped and the owner was told, by the rejected future or by the close
\* callback.
C10_NegotiationErrorFatal ==
  \A p \in Peers :
    negFailed[p]
      => /\ ~mod[p].pollTimer
         /\ promise[p] = "rejected" \/ calls[p].close > 0

\* C11: once the future of host() or join() is rejected, neither the open
\* callback nor the close callback of that session is invoked any more.
C11_RejectedThenNoCallback ==
  [][\A p \in Peers : promise[p] = "rejected" => calls'[p] = calls[p]]_vars

\* The link event tore the session of p down and its owner has not called
\* cleanup() since.
LinkLost(p) == link[p].state = "closed" /\ lastOp[p] # "cleanup"

\* C12: after the link reported its loss the session is Closed and the close
\* callback has run exactly once.
C12_LinkLossClosesOnce ==
  \A p \in Peers : LinkLost(p) => Closed(p) /\ calls[p].close = 1

\* C18: handling a poll batch does to the link, the future and the handler's
\* counters exactly what handling its well-formed envelopes alone would do.
C18_MalformedDropped ==
  \A p \in Peers : \A b \in pollResp[p] :
    LET h0 == [l |-> link[p], prom |-> promise[p], ice |-> iceHandled[p],
               neg |-> negFailed[p], threw |-> FALSE, seen |-> handled[p]]
        all == forEach(h0, b, p, mod[p].pc = "null", FALSE)
        good == forEach(h0, SelectSeq(b, WellFormed), p, mod[p].pc = "null", FALSE)
    IN all.l = good.l /\ all.prom = good.prom /\ all.ice = good.ice

\* C19: a step in which a poll fails leaves the module, the link, the
\* channels, the future, the mailbox and the owner as they were and invokes
\* no callback; the timer that issues the next poll still runs.
C19_FailedPollTransient ==
  [][\A p \in Peers :
       pollsFailed'[p] # pollsFailed[p]
         => /\ mod' = mod /\ link' = link /\ chan' = chan
            /\ promise' = promise /\ calls' = calls /\ ui' = ui
            /\ mailbox' = mailbox
            /\ mod'[p].pollTimer]_vars

\* A poll of a side failed, and a later poll of that side came back with
\* envelopes.
C19_Witness == \E p \in Peers : pollsFailed[p] > 0 /\ pollResp[p] # {}

\* C13: a step in which a channel the module holds goes from open to closed
\* without the module having closed it leaves isConnected() false and has
\* run the close callback.
C13_ChannelCloseEndsSession ==
  [][\A p \in Peers :
       /\ (chan[p].game = "open" /\ chan'[p].game = "closed"
              /\ mod'[p].dcGame # "null")
            => ~mod'[p].connected /\ calls'[p].close = calls[p].close + 1
       /\ (chan[p].reliable = "open" /\ chan'[p].reliable = "closed"
              /\ mod'[p].dcReliable # "null")
            => ~mod'[p].connected /\ calls'[p].close = calls[p].close + 1]_vars

IsMessage(e) == e.kind = "message"

\* The values the reliable-message callback of q was called with, in order.
Seen(q) ==
  LET f == SelectSeq(rx[q], IsMessage) IN [i \in 1..Len(f) |-> f[i].val]

IsQuit(msg) == msg.type = "quit"

QuitCount(q) == Len(SelectSeq(Seen(q), IsQuit))

\* The owner of p left a race through the menu while isConnected() was
\* true, and the 'quit' text was handed to the open 'reliable' channel.
Quitter(p) ==
  \E i \in DOMAIN sentLog[p] :
    sentLog[p][i].msg = Quit /\ sentLog[p][i].connected /\ sentLog[p][i].put

\* C14: when a side has sent 'quit' and torn down, and the close callback
\* has run on the other side, which had been connected, suffered no failure
\* and did not tear down by itself, then the other side's reliable-message
\* callback has been called with 'quit' exactly once before, and its open
\* callback ran once in all.
C14_QuitThenClose ==
  \A p \in Peers :
    (/\ Quitter(p)
     /\ failures = 0
     /\ lastOp[Other(p)] = "start"
     /\ calls[Other(p)].open > 0
     /\ calls[Other(p)].close > 0)
      => QuitCount(Other(p)) = 1 /\ calls[Other(p)].open = 1

\* C15: the step in which a 'quit' payload is delivered to a connected side
\* leaves that side Closed, or at least with its teardown scheduled.
C15_QuitCloses ==
  [][\A q \in Peers :
       (/\ mod[q].connected
        /\ wire[Other(q)] # <<>>
        /\ Head(wire[Other(q)]) = stringify(Quit)
        /\ wire'[Other(q)] = Tail(wire[Other(q)])
        /\ chan' = chan)
         => Closed(q)' \/ ui'[q].timer]_vars

\* C16: while both links are up and both 'reliable' channels open, once
\* nothing is in flight from a side every message its owner handed to
\* sendReliable() while isConnected() was true has reached the other side's
\* reliable-message callback.
C16_ReliableDelivered ==
  \A p \in Peers :
    (/\ \A x \in Peers : LinkUsable(link[x]) /\ chan[x].reliable = "open"
     /\ wire[p] = <<>>)
      => \A i \in DOMAIN sentLog[p] :
           sentLog[p][i].connected
             => \E j \in DOMAIN Seen(Other(p)) :
                  Seen(Other(p))[j] = sentLog[p][i].msg

WasPut(e) == e.put

\* The messages of p that sendReliable() handed to the channel, in order.
Put(p) ==
  LET f == SelectSeq(sentLog[p], WasPut) IN [i \in 1..Len(f) |-> f[i].msg]

\* a can be had from b by leaving elements out.
RECURSIVE IsSubseq(_, _)
IsSubseq(a, b) ==
  IF a = <<>> THEN TRUE
  ELSE IF b = <<>> THEN FALSE
  ELSE IF Head(a) = Head(b) THEN IsSubseq(Tail(a), Tail(b))
  ELSE IsSubseq(a, Tail(b))

\* C17: what the reliable-message callback of a side has seen is, in order
\* and without repetition, part of what the other side handed to its
\* channel.
C17_InOrderAtMostOnce ==
  \A q \in Peers : IsSubseq(Seen(q), Put(Other(q)))

\* The joiner's callback has seen the two messages the host sent, while
\* the payload that was put on the channel between them was warned about.
C17_Witness ==
  /\ Len(Seen("joiner")) = 2 /\ Len(Put("host")) = 2
  /\ Len(rx["joiner"]) = 3 /\ rx["joiner"][2].kind = "warn"

\* C20: the step in which a payload that does not parse is delivered calls
\* the reliable-message callback with nothing, leaves isConnected() and the
\* rest of the module, the channels and the owner as they were and runs no
\* callback; the payloads behind it stay in flight in their order.
C20_UndecodableDropped ==
  [][\A q \in Peers :
       (/\ wire[Other(q)] # <<>>
        /\ ~parse(Head(wire[Other(q)])).ok
        /\ wire'[Other(q)] = Tail(wire[Other(q)])
        /\ chan' = chan)
         => /\ Seen(q)' = Seen(q)
            /\ mod' = mod /\ calls' = calls /\ ui' = ui /\ link' = link]_vars

\* The handler of a side warned about a payload and passed a later one on.
C20_Witness ==
  \E q \in Peers : \E i, j \in DOMAIN rx[q] :
    i < j /\ rx[q][i].kind = "warn" /\ rx[q][j].kind = "message"

\* The seven fields of a buffer of PacketBytes or more, as section 4.4 of
\* the specification lays them out.
Fields(data) == [k \in 1..7 |-> Int32At(data.bytes, k - 1)]

\* C21: on each side the opponent's state is the seven fields of the latest
\* payload of 28 bytes or more that the state-message callback was called
\* with, whatever was lost, repeated or reordered before; it is the state
\* before any packet while there was no such payload.
C21_LastAppliedWins ==
  \A q \in Peers :
    mirror[q] = IF gameRx[q].big.buffer THEN Fields(gameRx[q].big)
                ELSE NoOpponent

\* C22: a call of the state-message callback with a buffer shorter than 28
\* bytes or with something that is no buffer leaves the opponent's state as
\* it was.
C22_ShortBufferIgnored ==
  [][\A q \in Peers :
       (/\ gameRx'[q].n = gameRx[q].n + 1
        /\ ~gameRx'[q].last.buffer \/ Len(gameRx'[q].last.bytes) < 28)
         => mirror'[q] = mirror[q]]_vars

\* A short buffer came after a state packet had been applied.
C22_Witness ==
  /\ gameRx["joiner"].n = 2
  /\ gameRx["joiner"].last = ShortBuffer
  /\ mirror["joiner"] \in RaceStates

\* The 28 bytes of the state packet of section 6 of the specification.
ScenarioBytes ==
  <<3, 0, 0, 0, 220, 5, 0, 0, 56, 255, 255, 255, 104, 16, 0, 0,
    10, 0, 0, 0, 10, 0, 0, 0, 5, 0, 0, 0>>

\* C23: every packet in flight that mpSendState() made has 28 bytes, the
\* packet of <<3, 1500, -200, 4200, 10, 10, 5>> is the fixed byte sequence,
\* and a call of the state-message callback with the packet of a car state x
\* leaves x, field for field, as the opponent's state.
C23_RoundTrip ==
  /\ [](\A p \in Peers : \A d \in air[p] : Len(d.bytes) = 28)
  /\ [](StatePacket(<<3, 1500, -200, 4200, 10, 10, 5>>) = Buffer(ScenarioBytes))
  /\ [][\A q \in Peers : \A x \in CarStates :
          (gameRx'[q].n = gameRx[q].n + 1 /\ gameRx'[q].last = StatePacket(x))
            => mirror'[q] = x]_vars

\* Both ends of the 32-bit range crossed the channel in both directions.
C23_Witness ==
  /\ mirror["joiner"] = <<MinInt32, MaxInt32, -1, 0, 1, 255, 256>>
  /\ mirror["host"] = <<MaxInt32, MinInt32, MaxInt32 - 1, MinInt32 + 1, -16777217, 2, -3>>
  /\ gameRx["host"].n = 2

\* The text of a control message as a channel hands it to onmessage.
ControlText(obj) == [buffer |-> FALSE, bytes |-> stringify(obj)]

ControlMessages == {Track(i) : i \in Tracks} \cup {Finished, Quit}

\* C24: the host's two channels carry the handlers of their label; on the
\* joiner an inbound channel carries the state-packet handlers if its label
\* is 'game', the control-message handler if it is 'reliable', and none if
\* it has another label; the state-message callback is never called with the
\* text of a control message, and the 'reliable' handler never meets a
\* payload that is not a control message.
C24_DemuxByLabel ==
  /\ bind["host"]["game"] = "setupDcGame"
  /\ bind["host"]["reliable"] = "setupDcReliable"
  /\ bind["joiner"]["game"] \in {"none", "setupDcGame"}
  /\ bind["joiner"]["reliable"] \in {"none", "setupDcReliable"}
  /\ bind["joiner"]["chat"] \in {"none", "unbound"}
  /\ \A q \in Peers :
       /\ gameRx[q].n > 0 =>
            \A obj \in ControlMessages : gameRx[q].last # ControlText(obj)
       /\ \A i \in DOMAIN rx[q] :
            rx[q][i].kind = "message" /\ rx[q][i].val \in ControlMessages

\* The joiner was told of all three channels, the host's track message
\* reached the joiner's control callback, and state packets reached the
\* state-message callbacks of both sides.
C24_Witness ==
  /\ bind["joiner"] = [l \in Labels |-> handleIncomingChannels(l)]
  /\ rx["joiner"] # <<>>
  /\ gameRx["joiner"].n > 0 /\ gameRx["joiner"].last.buffer
  /\ gameRx["host"].n > 0 /\ gameRx["host"].last.buffer

\* C25: in the step in which the 'game' channel of a side opens, polling
\* stops, the onOpen slot holds the owner's callback afterwards and the
\* owner's open callback ran once more than before, whether the owner
\* assigned its callback before host()/join() or after.
C25_InterceptThenRestore ==
  [][\A p \in Peers :
       (chan[p].game = "connecting" /\ chan'[p].game = "open")
         => /\ ~mod'[p].pollTimer
            /\ mod'[p].onOpen = <<OwnerOnOpen(p)>>
            /\ calls'[p].open = calls[p].open + 1]_vars

\* C26: no process has a live link that its module no longer refers to:
\* the link, the channels and the timer of the module's variables are the
\* only live ones, also after host() or join() was called again.
C26_OneLiveSession == \A p \in Peers : orphans[p] = 0

\* C27: there is no implicit timeout: while a process has called host() or
\* join(), has not called cleanup() and was never connected, its poll timer
\* stops only in a step that connects it (the unreliable channel opens) or
\* in the caller's cleanup(), and no step runs its close callback.
C27_NoImplicitTimeout ==
  [][\A p \in Peers :
       (lastOp[p] = "start" /\ calls[p].open = 0)
         => /\ (mod[p].pollTimer /\ ~mod'[p].pollTimer)
                 => (mod'[p].connected \/ lastOp'[p] = "cleanup")
            /\ calls'[p].close = calls[p].close]_vars

\* The joiner's control-message callback is handed a Track message with
\* track index i in this step, while its module is connected.
TrackReceived(i) ==
  /\ mod["joiner"].connected
  /\ Len(rx'["joiner"]) = Len(rx["joiner"]) + 1
  /\ rx'["joiner"][Len(rx'["joiner"])] = [kind |-> "message", val |-> Track(i)]

\* C28: every Track message the joiner receives while connected selects the
\* received track and schedules the start of the race, and the scheduled
\* start puts the joiner's UI in the multiplayer race mode.
C28_TrackStartsRace ==
  [][/\ \A i \in Tracks :
          TrackReceived(i) => /\ ui'["joiner"].track = i
                              /\ ui'["joiner"].fade = "track"
     /\ (ui["joiner"].fade = "track" /\ ui'["joiner"].fade # "track")
          => ui'["joiner"].mode = "mp_race"]_vars

\* C29: the role is fixed by the call that starts the session: once a
\* process has called host() its module answers isHost() = true, once it
\* has called join() false, and the only steps that write the role are the
\* calls of host() and join(); no network event, callback or cleanup() does.
C29_RoleImmutable ==
  /\ [](\A p \in Peers : sessions[p] > 0 => mod[p].isHost = (p = "host"))
  /\ [][\A p \in Peers :
          mod'[p].isHost # mod[p].isHost => sessions'[p] = sessions[p] + 1]_vars

\* The host has cleaned up and the joiner's link has failed, the close
\* callback has run there, and both modules still answer with their roles.
C29_Witness ==
  /\ lastOp["host"] = "cleanup" /\ mod["host"].pc = "null"
  /\ mod["host"].isHost
  /\ sessions["joiner"] = 1 /\ calls["joiner"].close > 0
  /\ ~mod["joiner"].isHost

\* C30: whatever upper/lower-case variant of the host's code the joiner's
\* owner passes to join(), the join request names the host's room, and so
\* does every send request of the joiner and the room its polls address,
\* as long as the module holds a room code.
C30_CodeCaseInsensitive ==
  sessions["joiner"] > 0 =>
    /\ joinCode["joiner"] \in JoinInputs
    /\ req["joiner"].code = ServerCode
    /\ mod["joiner"].roomCode # NoCode => mod["joiner"].roomCode = ServerCode
    /\ \A r \in net :
         (r.from = "joiner" /\ r.code # NoCode) => r.code = ServerCode

\* The joiner was given the code in lower case, has joined the host's room,
\* has polled the offer out of its mailbox there and has a request on the
\* way to that room.
C30_Witness ==
  /\ joinCode["joiner"] = <<"a", "b", "c", "d">>
  /\ req["joiner"].st = "ok"
  /\ link["joiner"].remote = "offer"
  /\ \E r \in net : r.from = "joiner" /\ r.code = ServerCode

\* The control-message callback of q is handed, in this step, a message of
\* a type other than track, finished and quit.
UnknownReceived(q) ==
  /\ Len(rx'[q]) = Len(rx[q]) + 1
  /\ rx'[q][Len(rx'[q])].kind = "message"
  /\ rx'[q][Len(rx'[q])].val.type \notin {"track", "finished", "quit"}

\* C31: a control message of an unknown type changes nothing of the owner:
\* neither the UI mode, the connection flag, the selected track, the
\* opponent-finished flag, the quit timer nor a fade.
C31_UnknownTypeIgnored ==
  [][\A q \in Peers : UnknownReceived(q) => ui'[q] = ui[q]]_vars

\* The joiner's callback was handed the unknown message while the joiner
\* was connected and racing, after the host's 'finished' had set the flag.
C31_Witness ==
  /\ Len(rx["joiner"]) > 0
  /\ rx["joiner"][Len(rx["joiner"])] = [kind |-> "message", val |-> Unknown]
  /\ ui["joiner"].mode = "mp_race"
  /\ ui["joiner"].mpConnected
  /\ ui["joiner"].mpOpponentFinished

\* An envelope of type ty sent by p is on its way, in the peer's mailbox or
\* in a poll response of the peer.
Published(p, ty) ==
  \/ \E r \in net : r.from = p /\ r.env.type = ty
  \/ \E i \in DOMAIN mailbox[Other(p)] : mailbox[Other(p)][i] = Envelope(ty, 0)
  \/ \E b \in pollResp[Other(p)] : \E i \in DOMAIN b : b[i] = Envelope(ty, 0)

\* What the handler of p works on in the current state.
HandlerState(p) ==
  [l |-> link[p], prom |-> promise[p], ice |-> iceHandled[p],
   neg |-> negFailed[p], threw |-> FALSE, seen |-> handled[p]]

\* C32: the host starts and publishes its offer only once its handler was
\* passed a Joined envelope, an offer it has published is its local
\* description, an answer is the host's remote description only if the
\* handler was passed an Answer, an Answer passed to the handler of a host
\* whose link took every description is the remote description, and an
\* Offer envelope passed to the host's handler changes nothing.
C32_HostOrdering ==
  /\ (link["host"].op = "offer" \/ link["host"].local = "offer"
        \/ Published("host", "offer")) => "joined" \in handled["host"]
  /\ Published("host", "offer") => link["host"].local = "offer"
  /\ link["host"].remote = "answer" => "answer" \in handled["host"]
  /\ ("answer" \in handled["host"] /\ ~negFailed["host"]
        /\ mod["host"].pc # "null") => link["host"].remote = "answer"
  /\ \A rejects \in BOOLEAN :
       LET h == hostHandler(HandlerState("host"), Envelope("offer", 0),
                            mod["host"].pc = "null", rejects)
       IN h = HandlerState("host")

\* The host's handler was passed an Offer envelope, and the host published
\* its offer in answer to Joined and took the joiner's answer.
C32_Witness ==
  /\ "offer" \in handled["host"]
  /\ "joined" \in handled["host"]
  /\ link["host"].local = "offer"
  /\ link["host"].remote = "answer"

\* C33: the joiner publishes Joined in the step in which its room request
\* succeeds and in no other; it creates its answer only with the offer as
\* remote description, its local description is an answer only then, a
\* published answer is its local description and follows an Offer passed to
\* its handler; Answer and Joined envelopes passed to its handler change
\* nothing.
C33_JoinerOrdering ==
  /\ [](/\ link["joiner"].op = "answer" => link["joiner"].remote = "offer"
        /\ link["joiner"].local = "answer" => link["joiner"].remote = "offer"
        /\ link["joiner"].remote = "offer" => "offer" \in handled["joiner"]
        /\ Published("joiner", "answer") => link["joiner"].local = "answer"
        /\ \A rejects \in BOOLEAN : \A g \in Stray("joiner") :
             joinHandler(HandlerState("joiner"), g, mod["joiner"].pc = "null",
                         rejects) = HandlerState("joiner"))
  /\ [][(\E r \in net' \ net : r.from = "joiner" /\ r.env.type = "joined")
          => (req["joiner"].st = "pending" /\ req'["joiner"].st = "ok")]_vars

\* The joiner's handler was passed a stray Answer envelope, and the joiner
\* took the host's offer and published its answer.
C33_Witness ==
  /\ "answer" \in handled["joiner"]
  /\ link["joiner"].remote = "offer"
  /\ link["joiner"].local = "answer"
  /\ Published("joiner", "answer")

\* The owner of p has called host() or join() again and not cleanup()
\* since, and this step is none of its calls and not the continuation of
\* its room request.
LateEventStep(p) ==
  /\ sessions[p] > 1 /\ lastOp[p] = "start"
  /\ sessions'[p] = sessions[p] /\ lastOp'[p] = lastOp[p] /\ req'[p] = req[p]

\* C34: once a process has started its next session, an event of the
\* channels or the link of its earlier session changes neither
\* isConnected() nor what the module holds, and runs none of the owner's
\* callbacks.
C34_StaleEventsIgnored ==
  [][\A p \in Peers :
       LateEventStep(p) => /\ mod'[p] = mod[p]
                           /\ calls'[p] = calls[p]
                           /\ ui'[p] = ui[p]]_vars

\* C35: a poll response that is handled while the poll timer of its
\* process is stopped passes no envelope to the handler and leaves the
\* link, the future and the handler's counters as they were.
C35_LateResponseDropped ==
  [][\A p \in Peers :
       (pollResp[p] # {} /\ pollResp'[p] = {} /\ ~mod[p].pollTimer)
         => /\ handled'[p] = handled[p]
            /\ iceHandled'[p] = iceHandled[p]
            /\ link'[p] = link[p]
            /\ promise'[p] = promise[p]
            /\ negFailed'[p] = negFailed[p]]_vars

\* C36: the quit timer of an owner that has meanwhile started its next
\* session fires without cleaning that session up and without changing the
\* UI mode.
C36_TimerOwnSession ==
  [][\A p \in Peers :
       (sessions[p] > 1 /\ lastOp[p] = "start"
          /\ ui[p].timer /\ ~ui'[p].timer)
         => /\ mod'[p] = mod[p]
            /\ lastOp'[p] = lastOp[p]
            /\ ui'[p].mode = ui[p].mode]_vars

Nth(s, k) == IF k >= 0 /\ k < Len(s) THEN s[k + 1] ELSE -1

RECURSIVE pushAll(_, _, _)
\* game.js 115-117: the drivers of division d in the order of their ids.
pushAll(divAssign, d, i) ==
  IF i > 11 THEN <<>>
  ELSE (IF divAssign[i] = d THEN <<i>> ELSE <<>>) \o pushAll(divAssign, d, i + 1)

\* game.js 112-155.  roll[i] is the random part of driver i's strength.
\* trackIndex and playerBestLapMs of a race are left out: they are only
\* shown.
createNewSeason(divAssign, roll) ==
  LET divisions == [d \in 0..3 |-> pushAll(divAssign, d, 0)]
      humanDiv == divAssign[HUMAN_PLAYER]
      divPlayers == divisions[humanDiv]
  IN [divAssign |-> divAssign,
      divisions |-> divisions,
      strengths |-> [i \in Drivers |-> BASE_STRENGTH[i] + roll[i]],
      humanDiv |-> humanDiv,
      schedule |->
        [r \in 0..5 |->
          LET a == Nth(divPlayers, PAIR_A[r])
              b == Nth(divPlayers, PAIR_B[r])
          IN [driverA |-> a, driverB |-> b,
              isHumanRace |-> (a = HUMAN_PLAYER \/ b = HUMAN_PLAYER),
              played |-> FALSE, winnerDriver |-> -1, bestLapDriver |-> -1]],
      currentRace |-> 0,
      points |-> [i \in Drivers |-> [wins |-> 0, bestLaps |-> 0]]]

\* The draws createNewSeason may make: those of the drivers whose strength
\* is read this season (the computer drivers of the human's division) vary,
\* the others are taken as 0.
Draws(divAssign) ==
  LET read == {i \in Drivers \ {HUMAN_PLAYER} :
                 divAssign[i] = divAssign[HUMAN_PLAYER]}
  IN {[i \in Drivers |-> IF i \in read THEN f[i] ELSE 0] :
        f \in [read -> Rolls]}

\* game.js 157-172.  flip is the outcome of Math.random() < 0.5.
resolveComputerRace(s, flip) ==
  LET race == s.schedule[s.currentRace]
      sA == s.strengths[race.driverA]
      sB == s.strengths[race.driverB]
      aWins == IF sA > sB THEN TRUE ELSE IF sB > sA THEN FALSE ELSE flip
      winner == IF aWins THEN race.driverA ELSE race.driverB
      loser == IF aWins THEN race.driverB ELSE race.driverA
  IN [s EXCEPT !.schedule[s.currentRace] =
                 [@ EXCEPT !.winnerDriver = winner, !.bestLapDriver = loser,
                           !.played = TRUE],
               !.points[winner].wins = @ + 1,
               !.points[loser].bestLaps = @ + 1]

\* game.js 179-182
driverPoints(s, id) == s.points[id].wins * 2 + s.points[id].bestLaps

\* game.js 186-190, the comparator of the sort.
compare(s, a, b) ==
  LET pa == driverPoints(s, a)
      pb == driverPoints(s, b)
  IN IF pb # pa THEN pb - pa ELSE s.points[b].wins - s.points[a].wins

RECURSIVE insert(_, _, _)
\* x goes in front of the first element it compares less than.
insert(s, sorted, x) ==
  IF sorted = <<>> THEN <<x>>
  ELSE IF compare(s, x, Head(sorted)) < 0 THEN <<x>> \o sorted
  ELSE <<Head(sorted)>> \o insert(s, Tail(sorted), x)

RECURSIVE sort(_, _, _)
\* Array.prototype.sort, which is stable: equal drivers keep their order.
sort(s, players, sorted) ==
  IF players = <<>> THEN sorted
  ELSE sort(s, Tail(players), insert(s, sorted, Head(players)))

\* game.js 184-192
divStandings(s, divIdx) == sort(s, s.divisions[divIdx], <<>>)

\* An assignment to an array element; the element -1 (undefined) is
\* JavaScript's property "undefined" of the array, no driver's entry.
Assign(na, i, v) == IF i \in DOMAIN na THEN [na EXCEPT ![i] = v] ELSE na

RECURSIVE moveUpOnly(_, _, _)
moveUpOnly(s, na, d) ==
  IF d >= 3 THEN na
  ELSE moveUpOnly(s, Assign(na, Nth(divStandings(s, d), 0), d + 1), d + 1)

RECURSIVE move(_, _, _)
\* game.js 567-571: the winner of division d moves up, the last of division
\* d + 1 moves down, for d = 0, 1, 2 in this order.
move(s, na, d) ==
  IF d >= 3 THEN na
  ELSE LET sH == divStandings(s, d)
           sA == divStandings(s, d + 1)
           up == Assign(na, Nth(sH, 0), d + 1)
       IN move(s, Assign(up, Nth(sA, Len(sA) - 1), d), d + 1)

\* game.js 520-538
showRaceResult(g) == [g EXCEPT !.solo.mode = "season_result"]

\* game.js 492-512
showPreRace(g, flip) ==
  IF ~g.season.schedule[g.season.currentRace].isHumanRace
  THEN showRaceResult([g EXCEPT !.season = resolveComputerRace(@, flip)])
  ELSE [g EXCEPT !.solo.mode = "season_pre_race"]

\* game.js 560-573
showStandings(g) ==
  LET na == move(g.season, g.season.divAssign, 0)
  IN [g EXCEPT !.solo.mode = "season_standings",
               !.solo.currentDivAssign = na,
               !.solo.humanDivision = na[HUMAN_PLAYER]]

\* game.js 540-547
advanceSeason(g, flip) ==
  LET h == [g EXCEPT !.season.currentRace = @ + 1]
  IN IF h.season.currentRace >= 6 THEN showStandings(h)
     ELSE showPreRace(h, flip)

\* game.js 628-653, finishSeasonRace up to its call of fadeAndDo, with the
\* engine's answers won, wrecked, pBest and oBest.
scoreSeasonRace(s, won, wrecked, pBest, oBest) ==
  LET race == s.schedule[s.currentRace]
      opponent == IF race.driverA = HUMAN_PLAYER THEN race.driverB
                  ELSE race.driverA
      winner == IF wrecked THEN opponent
                ELSE IF won THEN HUMAN_PLAYER ELSE opponent
      best == IF wrecked THEN opponent
              ELSE IF pBest > 0 /\ oBest > 0
                   THEN (IF pBest <= oBest THEN HUMAN_PLAYER ELSE opponent)
              ELSE IF pBest > 0 THEN HUMAN_PLAYER
              ELSE opponent
  IN [s EXCEPT !.schedule[s.currentRace] =
                 [@ EXCEPT !.winnerDriver = winner, !.bestLapDriver = best,
                           !.played = TRUE],
               !.points[winner].wins = @ + 1,
               !.points[best].bestLaps = @ + 1]

\* game.js 1041-1048, the season branch of the menu callback up to goToMenu.
abandonSeasonRace(s) ==
  LET race == s.schedule[s.currentRace]
      opp == IF race.driverA = HUMAN_PLAYER THEN race.driverB
             ELSE race.driverA
  IN [s EXCEPT !.schedule[s.currentRace] =
                 [@ EXCEPT !.winnerDriver = opp, !.bestLapDriver = opp,
                           !.played = TRUE],
               !.points[opp].wins = @ + 1,
               !.points[opp].bestLaps = @ + 1]

\* The lap times the engine may report, in ms; 0 is no lap.
LapTimes == {0, 1, 2}

\* The two variables of the season as one value.
Game == [solo |-> solo, season |-> season]

SetGame(g) == solo' = g.solo /\ season' = g.season

\* The variables of the sessions, which a season leaves alone.
sessionVars ==
  <<mod, link, chan, req, promise, rooms, net, mailbox, pollResp,
    calls, lastOp, sendFailed, negFailed, iceHandled, failures,
    pollsFailed, wire, rx, sentLog, ui,
    air, mirror, gameRx, bind, orphans, sessions, joinCode, handled>>

\* game.js 1009-1015: 'Start the Racing Season' in the main menu.
startSeason ==
  /\ solo.mode = "main_menu"
  /\ solo.seasons < MaxSeasons
  /\ solo' = fadeAndDo(solo, "season")
  /\ UNCHANGED season
  /\ UNCHANGED sessionVars

\* game.js 478: 'Continue' of the season overview.
overviewContinue ==
  /\ solo.mode = "season_overview"
  /\ \E flip \in BOOLEAN : SetGame(showPreRace(Game, flip))
  /\ UNCHANGED sessionVars

\* game.js 514-518 and 500-501: 'Race' before a race of the human.
beginSeasonRace ==
  /\ solo.mode = "season_pre_race"
  /\ solo' = fadeAndDo(solo, "begin")
  /\ UNCHANGED season
  /\ UNCHANGED sessionVars

\* game.js 659-665: 'Quit Season', or Escape in a season overlay mode
\* (game.js 1145-1152).
quitSeason ==
  /\ solo.mode \in {"season_overview", "season_pre_race", "season_result",
                    "season_standings"}
  /\ season' = NoSeason
  /\ solo' = [solo EXCEPT !.mode = "main_menu", !.cppMode = "menu"]
  /\ UNCHANGED sessionVars

\* The engine: the race under way comes to its end, and the next frame
\* notes the time (game.js 1306-1308).
raceFinishes ==
  /\ solo.mode = "season_race"
  /\ solo.cppMode = "in_progress"
  /\ ~solo.raceFinished
  /\ solo' = [solo EXCEPT !.raceFinished = TRUE,
                          !.olderFade = (solo.fade \notin {"none", "stuck"})]
  /\ UNCHANGED season
  /\ UNCHANGED sessionVars

\* game.js 1305-1328, the frame 6 s after the race ended: setGameOver() and
\* finishSeasonRace() (game.js 628-658).  Without a season the first line
\* of finishSeasonRace throws.
raceTimeout ==
  /\ solo.mode = "season_race"
  /\ solo.cppMode = "in_progress"
  /\ solo.raceFinished
  /\ ~solo.olderFade
  /\ IF season = NoSeason
     THEN /\ solo' = [solo EXCEPT !.cppMode = "game_over"]
          /\ UNCHANGED season
     ELSE \E won, wrecked \in BOOLEAN : \E pBest, oBest \in LapTimes :
            /\ season' = scoreSeasonRace(season, won, wrecked, pBest, oBest)
            /\ solo' = fadeAndDo([solo EXCEPT !.cppMode = "game_over"],
                                 "finish")
  /\ UNCHANGED sessionVars

\* game.js 1026-1027 and 1224-1228: the menu button, Backspace or Escape
\* during a season race.
menuDuringSeasonRace ==
  /\ solo.mode = "season_race"
  /\ solo' = fadeAndDo(solo, "menu")
  /\ UNCHANGED season
  /\ UNCHANGED sessionVars

\* game.js 249-251, 350 ms after fadeAndDo(): the scheduled callback runs.
\* "season" is game.js 1011-1014, "begin" 517-522, "finish" 654-657 and
\* "menu" 1027-1053; the last throws at its first line without a season.
seasonFadeCallback ==
  /\ solo.fade \in {"season", "begin", "finish", "menu"}
  /\ CASE solo.fade = "season" ->
            \E roll \in Draws(solo.currentDivAssign) :
              /\ season' = createNewSeason(solo.currentDivAssign, roll)
              /\ solo' = [solo EXCEPT !.mode = "season_overview",
                                      !.seasons = @ + 1, !.fade = "clear"]
       [] solo.fade = "begin" ->
            /\ solo' = [solo EXCEPT !.mode = "season_race",
                                    !.cppMode = "in_progress",
                                    !.raceFinished = FALSE, !.fade = "clear"]
            /\ UNCHANGED season
       [] solo.fade = "finish" ->
            /\ solo' = [showRaceResult(Game).solo EXCEPT !.cppMode = "menu",
                                                         !.fade = "clear"]
            /\ UNCHANGED season
       [] solo.fade = "menu" ->
            IF solo.mode = "season_race"
            THEN IF season = NoSeason
                 THEN /\ solo' = [solo EXCEPT !.fade = "stuck",
                                              !.olderFade = FALSE]
                      /\ UNCHANGED season
                 ELSE /\ season' = abandonSeasonRace(season)
                      /\ solo' = [showRaceResult(Game).solo
                                    EXCEPT !.cppMode = "menu",
                                           !.fade = "clear"]
            ELSE /\ solo' = [solo EXCEPT !.mode = "main_menu",
                                         !.cppMode = "menu", !.fade = "clear"]
                 /\ UNCHANGED season
  /\ UNCHANGED sessionVars

\* game.js 252-255, 60 ms after the callback: fading is false again.
seasonFadeEnd ==
  /\ solo.fade = "clear"
  /\ solo' = [solo EXCEPT !.fade = "none", !.olderFade = FALSE]
  /\ UNCHANGED season
  /\ UNCHANGED sessionVars

\* game.js 537 and 540-547: 'Continue' of a race result.
resultContinue ==
  /\ solo.mode = "season_result"
  /\ \E flip \in BOOLEAN : SetGame(advanceSeason(Game, flip))
  /\ UNCHANGED sessionVars

\* game.js 617 and 620-626: 'Finish Season' of the standings.
finishSeason ==
  /\ solo.mode = "season_standings"
  /\ season' = NoSeason
  /\ solo' = [solo EXCEPT !.mode = "main_menu", !.cppMode = "menu"]
  /\ UNCHANGED sessionVars

SeasonNext ==
  \/ startSeason
  \/ overviewContinue
  \/ beginSeasonRace
  \/ finishSeason
  \/ quitSeason
  \/ raceFinishes
  \/ raceTimeout
  \/ menuDuringSeasonRace
  \/ seasonFadeCallback
  \/ seasonFadeEnd
  \/ resultContinue

\* One process plays seasons from the main menu; no session is started.
SeasonSpec == Init /\ [][SeasonNext]_vars

\* C38: the intervals a process has running are the one whose handle the
\* module holds, or none.
C38_OnePollTimer ==
  \A p \in Peers : mod[p].timers = IF mod[p].pollTimer THEN 1 ELSE 0

\* The joiner called join() a second time while the timer of its first call
\* ran, and the continuation of the second call has started polling.
C38_Witness ==
  /\ sessions["joiner"] = 2 /\ req["joiner"].st = "ok"
  /\ lastOp["joiner"] = "start"
  /\ calls["joiner"].open = 0 /\ calls["joiner"].close = 0
  /\ orphans["joiner"] = 1
  /\ mod["joiner"].pollTimer

RECURSIVE winsFrom(_, _)
winsFrom(s, i) == IF i > 11 THEN 0 ELSE s.points[i].wins + winsFrom(s, i + 1)

RECURSIVE bestLapsFrom(_, _)
bestLapsFrom(s, i) ==
  IF i > 11 THEN 0 ELSE s.points[i].bestLaps + bestLapsFrom(s, i + 1)

\* The races of the season that have been completed.
Completed(s) == {r \in 0..5 : s.schedule[r].played}

\* C39: while a season is under way, the wins of all drivers add up to the
\* number of its completed races, and so do the best-lap points.
C39_ScoredOnce ==
  season # NoSeason =>
    /\ winsFrom(season, 0) = Cardinality(Completed(season))
    /\ bestLapsFrom(season, 0) = Cardinality(Completed(season))

\* Every division holds exactly three of the twelve drivers.
Shaped(a) ==
  /\ a \in [Drivers -> 0..3]
  /\ \A d \in 0..3 : Cardinality({i \in Drivers : a[i] = d}) = 3

\* C40: the assignment kept between seasons and the one of the season under
\* way put each of the 12 drivers in one of the 4 divisions, 3 in each, and
\* the season's division lists agree with its assignment.
C40_LeagueShape ==
  /\ Shaped(solo.currentDivAssign)
  /\ season # NoSeason =>
       /\ Shaped(season.divAssign)
       /\ \A d \in 0..3 :
            /\ Len(season.divisions[d]) = 3
            /\ \A i \in Drivers :
                 (season.divAssign[i] = d) <=>
                   (\E k \in 1..3 : season.divisions[d][k] = i)

\* The standings of a second season have been computed from an assignment
\* that the first season changed, and the human has moved up twice.
C40_Witness ==
  /\ solo.seasons = 2
  /\ solo.mode = "season_standings"
  /\ season # NoSeason
  /\ season.divAssign # INITIAL_DIVISIONS
  /\ solo.currentDivAssign # season.divAssign
  /\ solo.humanDivision = 2

====
